---- MODULE Spec2Model ----
(***************************************************************************)
(* A model of the spreadsheet-archive reader and of the contact field      *)
(* mapper of back_fill_contact_properties.                                 *)
(*                                                                         *)
(*   SpecZip    readZipEntries / extractZipEntry over byte buffers          *)
(*   SpecSheet  readSheetRows over decoded sheet parts                      *)
(*   SpecMap    processSheet1 / buildLatestRowMap / matchAndMapFields       *)
(*   SpecCell   parseCellValue over cells and shared-string tables          *)
(*   SpecDecode decodeXmlEntities over texts                                *)
(*   SpecColumn columnLettersToIndex over column letters                    *)
(*   SpecDate   excelSerialDateToJSDate over numbers and texts              *)
(*   SpecZone   detectTimezone over source rows and output rows             *)
(*   SpecReread readSheetRows called repeatedly on two archives             *)
(*   SpecCompare compareRows over expected rows and output rows             *)
(*   SpecVerify the mapper followed by the verifier's comparison            *)
(*   SpecReport verifyFieldMapping: counted tests, final status, exit code  *)
(*   SpecMain   main of the verifier: files, sheets, recovery, exit code     *)
(*                                                                         *)
(* Byte offsets are 0-based as in the source; sequences are 1-based, so    *)
(* the byte at offset o of buf is buf[o + 1].                              *)
(***************************************************************************)
EXTENDS Integers, Sequences, FiniteSets, TLC

VARIABLES
    pc,         \* position of the run: which operation has completed
    input,      \* how the input buffer was produced (ghost, for the claims)
    buffer,     \* the bytes fs.readFileSync returned
    zipData,    \* what readZipEntries produced: an archive or a thrown error
    extracted,  \* what the last extractZipEntry call produced
    book,       \* the parts of a workbook archive, as extractZipEntry yields them
    rows,       \* what the last readSheetRows call produced
    sheet1,     \* sheet-1 rows (Stripe subscriptions)
    sheet2,     \* sheet-2 rows (contacts)
    sheet1Data, \* Map email -> row selected by processSheet1 / buildLatestRowMap
    matchedData, \* what matchAndMapFields returned
    args,       \* the arguments of a call of a pure function
    returned,   \* what that call returned
    verification, \* the report record of verifyFieldMapping
    exitCode    \* the code the process exited with, None while it runs

vars == <<pc, input, buffer, zipData, extracted, book, rows,
          sheet1, sheet2, sheet1Data, matchedData, args, returned,
          verification, exitCode>>

zipVars == <<input, buffer, zipData, extracted>>
sheetVars == <<book, rows>>
mapVars == <<sheet1, sheet2, sheet1Data, matchedData>>
callVars == <<args, returned>>
runVars == <<verification, exitCode>>

None == [status |-> "none"]

Min(a, b) == IF a < b THEN a ELSE b
Max(a, b) == IF a > b THEN a ELSE b

(***************************************************************************)
(* Bounds of the model.                                                    *)
(***************************************************************************)
MaxEntries == 2        \* entries per built archive: 0..MaxEntries
MaxContent == 4        \* content bytes per entry: 0..MaxContent
MaxExtra == 1          \* extra-field bytes of a local / central header
MaxComment == 2        \* trailing comment bytes of a built archive
MaxRaw == 23           \* length of a buffer holding no signature at all
MaxCol == 3            \* columns of a modelled sheet: 1..MaxCol
MaxRows == 2           \* data rows of a modelled sheet: 0..MaxRows
MaxSheet1 == 3         \* rows of sheet 1: 0..MaxSheet1
MaxSheet2 == 2         \* rows of sheet 2: 0..MaxSheet2
MaxStrings == 3        \* entries of a shared-string table: 0..MaxStrings
MaxTokens == 3         \* pieces an entity text is composed of: 0..MaxTokens
MaxLetters == 2        \* letters of a column reference: 1..MaxLetters
MaxSerialSpan == 20    \* serials around 2023-01-01: 44927 - span .. 44927 + span
DeflateBlockMax == 2   \* bytes per stored deflate block the builder emits
MaxCalls == 3          \* calls of readSheetRows in a run of repeated decoding
MaxCompare == 2        \* rows on each side of a comparison

(***************************************************************************)
(* Buffer primitives (Node's Buffer).                                      *)
(***************************************************************************)
eocdSignature == 101010256     \* 0x06054b50
cdSignature == 33639248        \* 0x02014b50
localSignature == 67324752     \* 0x04034b50

\* Unsigned values of 2^30 and above (top byte >= 64) are all represented by
\* U32Cap: the checker's integers end at 2^31 - 1. U32Cap is larger than every
\* modelled buffer and equal to no signature, so every comparison the code
\* makes on such a value has the outcome it has in the code.
U32Cap == 2^30

\* A read of n bytes at offset off stays inside the buffer (else RangeError).
InRange(buf, off, n) == off >= 0 /\ off + n <= Len(buf)

readUInt16LE(buf, off) == buf[off + 1] + 256 * buf[off + 2]

readUInt32LE(buf, off) ==
    IF buf[off + 4] >= 64 THEN U32Cap
    ELSE buf[off + 1] + 256 * buf[off + 2] + 65536 * buf[off + 3]
         + 16777216 * buf[off + 4]

\* Buffer.prototype.slice(start, end): both ends clamped to the buffer.
slice(buf, start, end) ==
    LET s == Min(Max(start, 0), Len(buf))
        e == Min(Max(end, 0), Len(buf))
    IN  IF e <= s THEN <<>> ELSE SubSeq(buf, s + 1, e)

(***************************************************************************)
(* readZipEntries (part_000:32-80).                                        *)
(***************************************************************************)
\* The backward scan of lines 37-42 over the offsets hi, hi - 1, .., lo: the
\* first offset visited that holds the signature, or -1. The upper half is
\* visited first; splitting the range keeps the evaluation depth logarithmic
\* in the buffer length.
RECURSIVE ScanEocd(_, _, _)
ScanEocd(buf, lo, hi) ==
    IF hi < lo THEN -1
    ELSE IF lo = hi
    THEN IF readUInt32LE(buf, hi) = eocdSignature THEN hi ELSE -1
    ELSE LET mid == (lo + hi) \div 2
             upper == ScanEocd(buf, mid + 1, hi)
         IN  IF upper # -1 THEN upper ELSE ScanEocd(buf, lo, mid)

\* Mutant: the scan starts one byte too early.
locateEocdShort(buf) == ScanEocd(buf, 0, Len(buf) - 23)

\* Mutant: the scan starts one byte too late.
locateEocdLate(buf) == ScanEocd(buf, 0, Len(buf) - 21)

\* Line 37: the scan starts 22 bytes before the end of the buffer.
locateEocd(buf) == ScanEocd(buf, 0, Len(buf) - 22)

NoEntries == [n \in {} |-> 0]

\* Map.prototype.set: a later entry of the same name replaces the earlier one.
MapSet(m, key, value) ==
    [k \in (DOMAIN m) \cup {key} |-> IF k = key THEN value ELSE m[k]]

\* A throw: no archive reaches the caller.
Thrown(kind) == [status |-> kind, archive |-> None]

\* Mutant: a best-effort index of the entries parsed before the bad header.
invalidCentralEntryPartial(buf, offset, entries) ==
    [status |-> "ok",
     archive |-> [status |-> "archive", buffer |-> buf, entries |-> entries]]

\* Lines 56-58: a header without the signature aborts the whole index.
invalidCentralEntry(buf, offset, entries) == Thrown("InvalidCentralDirectory")

\* The loop of lines 54-77 from its i-th iteration on: left headers remain,
\* the next one is expected at offset, entries holds what was parsed so far.
RECURSIVE ReadCentralDirectory(_, _, _, _)
ReadCentralDirectory(buf, offset, left, entries) ==
    IF left = 0
    THEN [status |-> "ok", archive |-> [status |-> "archive", buffer |-> buf, entries |-> entries]]
    ELSE IF ~InRange(buf, offset, 4) THEN Thrown("RangeError")
    ELSE IF readUInt32LE(buf, offset) # cdSignature
         THEN invalidCentralEntry(buf, offset, entries)
    ELSE IF ~InRange(buf, offset, 46) THEN Thrown("RangeError")
    ELSE LET fileNameLength == readUInt16LE(buf, offset + 28)
             extraLength == readUInt16LE(buf, offset + 30)
             commentLength == readUInt16LE(buf, offset + 32)
             fileName == slice(buf, offset + 46, offset + 46 + fileNameLength)
             entry == [compressionMethod |-> readUInt16LE(buf, offset + 10),
                       compressedSize |-> readUInt32LE(buf, offset + 20),
                       uncompressedSize |-> readUInt32LE(buf, offset + 24),
                       localHeaderOffset |-> readUInt32LE(buf, offset + 42)]
         IN  ReadCentralDirectory(buf,
                 offset + 46 + fileNameLength + extraLength + commentLength,
                 left - 1, MapSet(entries, fileName, entry))

\* The result also records eocdOffset, the value of the local variable of
\* that name when the function returns or throws.
readZipEntries(buf) ==
    LET eocdOffset == locateEocd(buf)
        result ==
            IF eocdOffset = -1 THEN Thrown("EocdNotFound")
            ELSE LET centralDirectoryOffset == readUInt32LE(buf, eocdOffset + 16)
                     totalEntries == readUInt16LE(buf, eocdOffset + 10)
                 IN  ReadCentralDirectory(buf, centralDirectoryOffset,
                                          totalEntries, NoEntries)
    IN  [status |-> result.status, archive |-> result.archive,
         eocdOffset |-> eocdOffset]

(***************************************************************************)
(* zlib.inflateRawSync, for streams of stored blocks (RFC 1951, 3.2.4):    *)
(* a header byte (BFINAL in bit 0, BTYPE in bits 1-2), LEN and its one's   *)
(* complement NLEN, then LEN literal bytes. Compressed block types are not *)
(* produced by the builder below and decode as a malformed stream.         *)
(***************************************************************************)
RECURSIVE InflateBlocks(_, _, _)
InflateBlocks(data, pos, out) ==
    IF pos + 5 > Len(data) THEN [ok |-> FALSE, bytes |-> <<>>]
    ELSE LET header == data[pos + 1]
             bfinal == header % 2
             btype == (header \div 2) % 4
             len == data[pos + 2] + 256 * data[pos + 3]
             nlen == data[pos + 4] + 256 * data[pos + 5]
         IN  IF btype # 0 \/ len + nlen # 65535 \/ pos + 5 + len > Len(data)
             THEN [ok |-> FALSE, bytes |-> <<>>]
             ELSE LET out2 == out \o SubSeq(data, pos + 6, pos + 5 + len)
                  IN  IF bfinal = 1 THEN [ok |-> TRUE, bytes |-> out2]
                      ELSE InflateBlocks(data, pos + 5 + len, out2)

inflateRawSync(data) == InflateBlocks(data, 0, <<>>)

(***************************************************************************)
(* extractZipEntry (part_000:82-107). The result records what was thrown   *)
(* or returned, and the payload start and slice the call computed.         *)
(***************************************************************************)
ExtractFailed(name, kind) ==
    [status |-> kind, name |-> name, bytes |-> <<>>,
     dataStart |-> -1, compressedData |-> <<>>]

\* Mutant: the local header's signature is not checked.
localHeaderUnchecked(buf, headerOffset) == TRUE

\* Lines 89-90: the local header must begin with its signature.
localHeaderValid(buf, headerOffset) ==
    readUInt32LE(buf, headerOffset) = localSignature

\* Lines 94-96: the payload starts after the local header's own name and
\* extra field.
payloadStart(buf, headerOffset) ==
    LET fileNameLength == readUInt16LE(buf, headerOffset + 26)
        extraLength == readUInt16LE(buf, headerOffset + 28)
    IN  headerOffset + 30 + fileNameLength + extraLength

\* Line 97.
compressedPayload(buf, dataStart, compressedSize) ==
    slice(buf, dataStart, dataStart + compressedSize)

\* Mutant: a deflate payload is returned as sliced, not inflated.
decompressNoInflate(compressionMethod, compressedData) ==
    IF compressionMethod \in {0, 8} THEN [status |-> "ok", bytes |-> compressedData]
    ELSE [status |-> "UnsupportedCompression", bytes |-> <<>>]

\* Mutant: an unknown method falls back to the raw payload.
decompressFallbackStored(compressionMethod, compressedData) ==
    IF compressionMethod = 8
    THEN LET inflated == inflateRawSync(compressedData)
         IN  IF inflated.ok THEN [status |-> "ok", bytes |-> inflated.bytes]
             ELSE [status |-> "InflateError", bytes |-> <<>>]
    ELSE [status |-> "ok", bytes |-> compressedData]

\* Lines 99-106: dispatch on the compression method.
decompress(compressionMethod, compressedData) ==
    IF compressionMethod = 0 THEN [status |-> "ok", bytes |-> compressedData]
    ELSE IF compressionMethod = 8
    THEN LET inflated == inflateRawSync(compressedData)
         IN  IF inflated.ok THEN [status |-> "ok", bytes |-> inflated.bytes]
             ELSE [status |-> "InflateError", bytes |-> <<>>]
    ELSE [status |-> "UnsupportedCompression", bytes |-> <<>>]

\* Mutant: an absent name is looked up as an entry at the start of the buffer.
entriesGetFirst(archive, entryName) ==
    IF entryName \in DOMAIN archive.entries THEN <<archive.entries[entryName]>>
    ELSE <<[compressionMethod |-> 0, compressedSize |-> 0, uncompressedSize |-> 0,
            localHeaderOffset |-> 0]>>

\* Line 83: zipData.entries.get(entryName), as a sequence of length 0 or 1.
entriesGet(archive, entryName) ==
    IF entryName \in DOMAIN archive.entries THEN <<archive.entries[entryName]>> ELSE <<>>

extractZipEntry(archive, entryName) ==
    IF entriesGet(archive, entryName) = <<>>
    THEN ExtractFailed(entryName, "EntryNotFound")
    ELSE LET entry == entriesGet(archive, entryName)[1]
             buf == archive.buffer
             headerOffset == entry.localHeaderOffset
         IN  IF ~InRange(buf, headerOffset, 4)
             THEN ExtractFailed(entryName, "RangeError")
             ELSE IF ~localHeaderValid(buf, headerOffset)
             THEN ExtractFailed(entryName, "InvalidLocalHeader")
             ELSE IF ~InRange(buf, headerOffset + 26, 2) \/ ~InRange(buf, headerOffset + 28, 2)
             THEN ExtractFailed(entryName, "RangeError")
             ELSE LET dataStart == payloadStart(buf, headerOffset)
                      compressedData ==
                          compressedPayload(buf, dataStart, entry.compressedSize)
                      result == decompress(entry.compressionMethod, compressedData)
                  IN  [status |-> result.status, name |-> entryName,
                       bytes |-> result.bytes, dataStart |-> dataStart,
                       compressedData |-> compressedData]

(***************************************************************************)
(* Input buffers. A built archive lays out, per entry, a local header and  *)
(* its payload, then the central directory, then the end-of-central-       *)
(* directory record and a trailing comment (spec section 6). A damaged     *)
(* archive is a built one with some bytes overwritten.                     *)
(***************************************************************************)
U16(n) == <<n % 256, (n \div 256) % 256>>
U32(n) == <<n % 256, (n \div 256) % 256, (n \div 65536) % 256, (n \div 16777216) % 256>>

Fill(n, b) == [i \in 1..n |-> b]

\* Raw deflate as a writer that only stores: blocks of at most
\* DeflateBlockMax bytes, the last one flagged final.
RECURSIVE DeflateStored(_)
DeflateStored(content) ==
    LET n == Min(Len(content), DeflateBlockMax)
        last == n = Len(content)
    IN  <<IF last THEN 1 ELSE 0>> \o U16(n) \o U16(65535 - n)
        \o SubSeq(content, 1, n)
        \o (IF last THEN <<>> ELSE DeflateStored(SubSeq(content, n + 1, Len(content))))

Methods == {0, 8, 99}

\* Entry k is named by k letters; the first entry's content begins with the
\* four bytes of the end-of-central-directory signature.
NameOf(k) == Fill(k, 96 + k)
ContentPattern(k) ==
    IF k = 1 THEN <<80, 75, 5, 6>> \o [j \in 1..(MaxContent + 1) |-> 16 + j]
    ELSE [j \in 1..(MaxContent + 5) |-> 16 * k + j]
ContentOf(d, k) == SubSeq(ContentPattern(k), 1, d.len)
PayloadOf(d, k) ==
    IF d.methods[k] = 8 THEN DeflateStored(ContentOf(d, k)) ELSE ContentOf(d, k)

LocalHeader(d, k) ==
    U32(localSignature) \o <<20, 0>> \o <<0, 0>> \o U16(d.methods[k])
    \o <<0, 0, 0, 0>> \o U32(0)
    \o U32(Len(PayloadOf(d, k))) \o U32(Len(ContentOf(d, k)))
    \o U16(Len(NameOf(k))) \o U16(d.lextra)
    \o NameOf(k) \o Fill(d.lextra, 0)

LocalRecord(d, k) == LocalHeader(d, k) \o PayloadOf(d, k)

RECURSIVE LocalOffset(_, _)
LocalOffset(d, k) ==
    IF k = 1 THEN 0 ELSE LocalOffset(d, k - 1) + Len(LocalRecord(d, k - 1))

CentralHeader(d, k) ==
    U32(cdSignature) \o <<20, 0>> \o <<20, 0>> \o <<0, 0>> \o U16(d.methods[k])
    \o <<0, 0, 0, 0>> \o U32(0)
    \o U32(Len(PayloadOf(d, k))) \o U32(Len(ContentOf(d, k)))
    \o U16(Len(NameOf(k))) \o U16(d.cextra) \o U16(0)
    \o <<0, 0>> \o <<0, 0>> \o <<0, 0, 0, 0>>
    \o U32(LocalOffset(d, k))
    \o NameOf(k) \o Fill(d.cextra, 0)

NumEntries(d) == Len(d.methods)
CentralDirectoryOffset(d) == LocalOffset(d, NumEntries(d) + 1)

RECURSIVE CentralOffset(_, _)
CentralOffset(d, k) ==
    IF k = 1 THEN CentralDirectoryOffset(d)
    ELSE CentralOffset(d, k - 1) + Len(CentralHeader(d, k - 1))

EocdOffset(d) == CentralOffset(d, NumEntries(d) + 1)

EocdRecord(total, cdSize, cdOffset, comment) ==
    U32(eocdSignature) \o <<0, 0>> \o <<0, 0>> \o U16(total) \o U16(total)
    \o U32(cdSize) \o U32(cdOffset) \o U16(Len(comment)) \o comment

\* The local records (the central headers) of the entries k.., in order.
RECURSIVE LocalRecordsFrom(_, _)
LocalRecordsFrom(d, k) ==
    IF k > NumEntries(d) THEN <<>> ELSE LocalRecord(d, k) \o LocalRecordsFrom(d, k + 1)
RECURSIVE CentralHeadersFrom(_, _)
CentralHeadersFrom(d, k) ==
    IF k > NumEntries(d) THEN <<>> ELSE CentralHeader(d, k) \o CentralHeadersFrom(d, k + 1)

BuildArchive(d) ==
    LocalRecordsFrom(d, 1) \o CentralHeadersFrom(d, 1)
    \o EocdRecord(NumEntries(d), EocdOffset(d) - CentralDirectoryOffset(d),
                  CentralDirectoryOffset(d), Fill(d.clen, 33))

\* buf with the bytes at offset off.. overwritten.
Patch(buf, off, bytes) ==
    [i \in 1..Len(buf) |->
        IF i - 1 >= off /\ i - 1 < off + Len(bytes) THEN bytes[i - off] ELSE buf[i]]

\* Sequences over S of length 0..n.
SeqsUpTo(S, n) == UNION {[1..m -> S] : m \in 0..n}

\* Archives as a writer produces them.
BuiltInputs ==
    [kind : {"built"}, methods : SeqsUpTo(Methods, MaxEntries), len : 0..MaxContent,
     lextra : 0..MaxExtra, cextra : 0..MaxExtra, clen : 0..MaxComment, k : {0}]

\* Damaged archives: one field or signature of a built archive overwritten.
EntryDamage == {"badCentral", "badLocal", "sizeMore", "localPast"}
ArchiveDamage == {"cdOffsetPast", "countMore", "sigInComment", "truncated"}
DamagedInputs ==
    {d \in [kind : EntryDamage \cup ArchiveDamage, methods : SeqsUpTo(Methods, MaxEntries),
            len : 0..MaxContent, lextra : {0}, cextra : {0}, clen : {0},
            k : 0..MaxEntries] :
        IF d.kind \in EntryDamage THEN d.k \in 1..Len(d.methods) ELSE d.k = 0}

\* Buffers that hold no signature at all, shorter and longer than 22 bytes.
RawInputs == [kind : {"raw"}, n : 0..MaxRaw]

ZipInputs == BuiltInputs \cup DamagedInputs \cup RawInputs

BufferOf(d) ==
    IF d.kind = "raw" THEN Fill(d.n, 33)
    ELSE LET buf == BuildArchive(d)
         IN  CASE d.kind = "built" -> buf
               [] d.kind = "badCentral" -> Patch(buf, CentralOffset(d, d.k), <<81>>)
               [] d.kind = "badLocal" -> Patch(buf, LocalOffset(d, d.k), <<81>>)
               [] d.kind = "sizeMore" ->
                      Patch(buf, CentralOffset(d, d.k) + 20, U32(Len(buf)))
               [] d.kind = "localPast" ->
                      Patch(buf, CentralOffset(d, d.k) + 42, U32(Len(buf) - 3))
               [] d.kind = "cdOffsetPast" ->
                      Patch(buf, EocdOffset(d) + 16, U32(Len(buf) - 2))
               [] d.kind = "countMore" ->
                      Patch(buf, EocdOffset(d) + 10, U16(NumEntries(d) + 1))
               [] d.kind = "sigInComment" ->
                      Patch(buf, EocdOffset(d) + 20, U16(22))
                      \o EocdRecord(0, 0, 0, <<>>)
               [] d.kind = "truncated" -> SubSeq(buf, 1, Len(buf) - 1)

(***************************************************************************)
(* The archive reader as a state machine: a buffer is read, indexed by     *)
(* readZipEntries, and entries are extracted from the archive by name.     *)
(***************************************************************************)
InitZip ==
    /\ pc = "start"
    /\ verification = None /\ exitCode = None
    /\ args = None /\ returned = None
    /\ input \in ZipInputs
    /\ buffer = BufferOf(input)
    /\ zipData = None
    /\ extracted = None
    /\ book = None /\ rows = None
    /\ sheet1 = None /\ sheet2 = None /\ sheet1Data = None /\ matchedData = None

ReadZipEntries ==
    /\ pc = "start"
    /\ zipData' = readZipEntries(buffer)
    /\ pc' = IF zipData'.status = "ok" THEN "indexed" ELSE "failed"
    /\ UNCHANGED <<runVars, input, buffer, extracted, sheetVars, mapVars, callVars>>

\* Names a caller may ask for: every indexed name and one that is absent.
RequestNames == (DOMAIN zipData.archive.entries) \cup {NameOf(MaxEntries + 2)}

ExtractZipEntry ==
    /\ pc \in {"indexed", "extracted"}
    /\ \E entryName \in RequestNames :
          extracted' = extractZipEntry(zipData.archive, entryName)
    /\ pc' = "extracted"
    /\ UNCHANGED <<runVars, input, buffer, zipData, sheetVars, mapVars, callVars>>

NextZip == ReadZipEntries \/ ExtractZipEntry

SpecZip == InitZip /\ [][NextZip]_vars

(***************************************************************************)
(* Claims about the archive reader, checked under SpecZip.                 *)
(***************************************************************************)
Indexed == pc \in {"indexed", "extracted"}
ReadDone == pc \in {"indexed", "extracted", "failed"}

\* The four bytes at offset i, compared one by one.
BytesAt(buf, i, b1, b2, b3, b4) ==
    /\ InRange(buf, i, 4)
    /\ buf[i + 1] = b1 /\ buf[i + 2] = b2 /\ buf[i + 3] = b3 /\ buf[i + 4] = b4
EocdSigAt(buf, i) == BytesAt(buf, i, 80, 75, 5, 6)
CentralSigAt(buf, i) == BytesAt(buf, i, 80, 75, 1, 2)
LocalSigAt(buf, i) == BytesAt(buf, i, 80, 75, 3, 4)

\* The entry of the archive that the last extractZipEntry call asked for.
AskedEntry == zipData.archive.entries[extracted.name]
AskedIndexed == pc = "extracted" /\ extracted.name \in DOMAIN zipData.archive.entries

\* C2: archive round trip. For an archive built from contents stored with
\* method 0 or method 8, readZipEntries succeeds and indexes every entry, and
\* extractZipEntry of an entry's name returns exactly the content it was
\* built from; for a stored entry the returned bytes are the payload slice
\* itself.
C2_RoundTrip ==
    input.kind = "built" =>
        /\ pc # "failed"
        /\ Indexed =>
              DOMAIN zipData.archive.entries = {NameOf(k) : k \in 1..NumEntries(input)}
        /\ pc = "extracted" =>
              \A k \in 1..NumEntries(input) :
                  (extracted.name = NameOf(k) /\ input.methods[k] \in {0, 8}) =>
                      /\ extracted.status = "ok"
                      /\ extracted.bytes = ContentOf(input, k)
                      /\ input.methods[k] = 0 =>
                            extracted.bytes = extracted.compressedData

C2_Witness ==
    /\ pc = "extracted" /\ input.kind = "built"
    /\ input.methods = <<0, 8>> /\ input.len >= 3
    /\ input.lextra # input.cextra /\ input.clen > 0
    /\ extracted.name = NameOf(2)
    /\ extracted.status = "ok" /\ extracted.bytes = ContentOf(input, 2)

\* C5: the end-of-central-directory record is taken at the greatest offset
\* i <= length - 22 whose four bytes are 50 4b 05 06; when there is no such
\* offset (also for buffers shorter than 22 bytes) readZipEntries fails with
\* the end-of-central-directory error and returns no archive.
EocdCandidates == {i \in 0..(Len(buffer) - 22) : EocdSigAt(buffer, i)}

C5_NearestEocdWins ==
    ReadDone =>
        IF EocdCandidates = {}
        THEN zipData.status = "EocdNotFound" /\ zipData.archive = None
        ELSE /\ zipData.status # "EocdNotFound"
             /\ zipData.eocdOffset \in EocdCandidates
             /\ \A j \in EocdCandidates : j <= zipData.eocdOffset

C5_Witness ==
    /\ ReadDone
    /\ Cardinality(EocdCandidates) >= 2
    /\ \A j \in EocdCandidates : j <= zipData.eocdOffset
    /\ \E j \in EocdCandidates : j < zipData.eocdOffset

\* C30: whenever readZipEntries accepts an offset as the end-of-central-
\* directory record, the 22 bytes of the fixed record from that offset lie
\* inside the buffer, so the entry count at offset + 10 and the central-
\* directory offset at offset + 16 are read inside it; a buffer shorter
\* than 22 bytes, the empty one included, has no accepted offset.
C30_EocdInsideBuffer ==
    ReadDone =>
        /\ zipData.eocdOffset # -1 =>
              /\ zipData.eocdOffset >= 0
              /\ zipData.eocdOffset + 22 <= Len(buffer)
              /\ InRange(buffer, zipData.eocdOffset + 10, 2)
              /\ InRange(buffer, zipData.eocdOffset + 16, 4)
        /\ Len(buffer) < 22 => zipData.eocdOffset = -1

\* The accepted record ends exactly at the end of the buffer.
C30_Witness ==
    /\ ReadDone
    /\ zipData.eocdOffset # -1
    /\ zipData.eocdOffset + 22 = Len(buffer)

\* C6: index construction is all-or-nothing. Walking the declared
\* totalEntries headers from the declared offset, if a header is reached
\* whose four signature bytes are not 50 4b 01 02, readZipEntries fails with
\* the invalid-central-directory-entry error and no archive is returned, not
\* even one holding the entries parsed before it; an archive is returned
\* only when every declared header began with the signature.
RECURSIVE HeaderWalk(_, _, _)
HeaderWalk(buf, offset, left) ==
    IF left = 0 THEN "all good"
    ELSE IF ~InRange(buf, offset, 4) THEN "outside"
    ELSE IF ~CentralSigAt(buf, offset) THEN "bad signature"
    ELSE IF ~InRange(buf, offset, 46) THEN "outside"
    ELSE HeaderWalk(buf,
             offset + 46 + readUInt16LE(buf, offset + 28)
                 + readUInt16LE(buf, offset + 30) + readUInt16LE(buf, offset + 32),
             left - 1)

DeclaredHeaders ==
    HeaderWalk(buffer, readUInt32LE(buffer, zipData.eocdOffset + 16),
               readUInt16LE(buffer, zipData.eocdOffset + 10))

C6_AllOrNothing ==
    (ReadDone /\ zipData.eocdOffset # -1) =>
        /\ DeclaredHeaders = "bad signature" =>
              zipData.status = "InvalidCentralDirectory" /\ zipData.archive = None
        /\ input.kind \in {"badCentral", "countMore"} =>
              DeclaredHeaders = "bad signature"
        /\ zipData.archive # None =>
              zipData.status = "ok" /\ DeclaredHeaders = "all good"

C6_Witness ==
    /\ pc = "failed" /\ input.kind = "badCentral" /\ input.k = 2
    /\ CentralSigAt(buffer, CentralOffset(input, 1))
    /\ zipData.status = "InvalidCentralDirectory" /\ zipData.archive = None

\* C7: readZipEntries returns an archive or fails with one of the two
\* archive-format errors (end of central directory not found, invalid
\* central directory entry) and with no other kind of error.
C7_OnlyFormatErrors ==
    ReadDone => zipData.status \in {"ok", "EocdNotFound", "InvalidCentralDirectory"}

\* C8: the payload start is localHeaderOffset + 30 + the name and extra
\* lengths of the local header itself, and the payload taken from there is
\* exactly compressedSize bytes long, for every entry of every indexed
\* archive.
PayloadTaken == AskedIndexed /\ extracted.dataStart # -1

C8_ExactPayload ==
    PayloadTaken =>
        /\ extracted.dataStart =
              AskedEntry.localHeaderOffset + 30
              + readUInt16LE(buffer, AskedEntry.localHeaderOffset + 26)
              + readUInt16LE(buffer, AskedEntry.localHeaderOffset + 28)
        /\ Len(extracted.compressedData) = AskedEntry.compressedSize

\* C9: when the four bytes at the entry's recorded localHeaderOffset are not
\* 50 4b 03 04, extractZipEntry fails with the invalid-local-file-header
\* error and returns no bytes, whatever the compression method.
C9_LocalHeaderChecked ==
    (/\ AskedIndexed
     /\ InRange(buffer, AskedEntry.localHeaderOffset, 4)
     /\ ~LocalSigAt(buffer, AskedEntry.localHeaderOffset)) =>
        extracted.status = "InvalidLocalHeader" /\ extracted.bytes = <<>>

C9_Witness ==
    /\ AskedIndexed /\ input.kind = "badLocal"
    /\ extracted.name = NameOf(input.k)
    /\ AskedEntry.compressionMethod = 99 /\ AskedEntry.compressedSize > 0
    /\ extracted.status = "InvalidLocalHeader"

\* C10: for an entry with a valid local header, every compression method
\* other than 0 and 8 fails with the unsupported-compression error, and the
\* raw payload is not returned.
C10_UnsupportedMethod ==
    (/\ AskedIndexed
     /\ InRange(buffer, AskedEntry.localHeaderOffset, 30)
     /\ LocalSigAt(buffer, AskedEntry.localHeaderOffset)
     /\ AskedEntry.compressionMethod \notin {0, 8}) =>
        extracted.status = "UnsupportedCompression" /\ extracted.bytes = <<>>

C10_Witness ==
    /\ AskedIndexed /\ input.kind = "built"
    /\ AskedEntry.compressionMethod = 99 /\ AskedEntry.compressedSize > 0
    /\ LocalSigAt(buffer, AskedEntry.localHeaderOffset)
    /\ extracted.status = "UnsupportedCompression"

\* C11: extractZipEntry fails with the entry-not-found error for every name
\* that is not a key of the archive's entry table; the failure does not
\* depend on any byte of the buffer (it is the same for an archive with the
\* same table and an empty buffer), and the archive is still the buffer that
\* was read and the table readZipEntries built from it.
C11_EntryNotFound ==
    (pc = "extracted" /\ extracted.name \notin DOMAIN zipData.archive.entries) =>
        /\ extracted.status = "EntryNotFound"
        /\ extracted.bytes = <<>> /\ extracted.compressedData = <<>>
        /\ extracted = extractZipEntry([zipData.archive EXCEPT !.buffer = <<>>],
                                       extracted.name)
        /\ zipData.archive.buffer = buffer
        /\ zipData = readZipEntries(buffer)

\* A name that is absent from a non-empty entry table was asked for.
C11_Witness ==
    /\ pc = "extracted"
    /\ DOMAIN zipData.archive.entries # {}
    /\ extracted.name \notin DOMAIN zipData.archive.entries
    /\ extracted.status = "EntryNotFound"

(***************************************************************************)
(* Text. A string is the sequence of its character codes: "&" is 38,       *)
(* "#" 35, ";" 59, "0".."9" 48..57, "A".."Z" 65..90, "a".."z" 97..122.     *)
(***************************************************************************)
IsDigit(c) == c >= 48 /\ c <= 57
IsSpace(c) == c \in {32, 9, 10, 13}
IsHexDigit(c) == IsDigit(c) \/ (c >= 65 /\ c <= 70) \/ (c >= 97 /\ c <= 102)
HexValue(c) == IF IsDigit(c) THEN c - 48 ELSE IF c >= 97 THEN c - 87 ELSE c - 55

From(s, i) == SubSeq(s, i, Len(s))
StartsWithAt(s, i, pat) ==
    i + Len(pat) - 1 <= Len(s) /\ SubSeq(s, i, i + Len(pat) - 1) = pat

\* String.prototype.replace(/pat/g, rep) for a literal pattern: matches are
\* taken left to right and the replacement text is not scanned again.
RECURSIVE ReplaceAllFrom(_, _, _, _)
ReplaceAllFrom(s, i, pat, rep) ==
    IF i > Len(s) THEN <<>>
    ELSE IF StartsWithAt(s, i, pat)
    THEN rep \o ReplaceAllFrom(s, i + Len(pat), pat, rep)
    ELSE <<s[i]>> \o ReplaceAllFrom(s, i + 1, pat, rep)
ReplaceAll(s, pat, rep) == ReplaceAllFrom(s, 1, pat, rep)

\* The end of the longest run of digits (hex digits, white space) that
\* starts at i: the offset of the first character after it.
RECURSIVE DigitRunEnd(_, _)
DigitRunEnd(s, i) == IF i <= Len(s) /\ IsDigit(s[i]) THEN DigitRunEnd(s, i + 1) ELSE i
RECURSIVE HexRunEnd(_, _)
HexRunEnd(s, i) == IF i <= Len(s) /\ IsHexDigit(s[i]) THEN HexRunEnd(s, i + 1) ELSE i
RECURSIVE SpaceRunEnd(_, _)
SpaceRunEnd(s, i) == IF i <= Len(s) /\ IsSpace(s[i]) THEN SpaceRunEnd(s, i + 1) ELSE i

\* parseInt(digits, radix) and String.fromCharCode (a 16-bit code unit).
RECURSIVE ParseDigits(_, _, _)
ParseDigits(digits, radix, acc) ==
    IF digits = <<>> THEN acc
    ELSE ParseDigits(From(digits, 2), radix, acc * radix + HexValue(digits[1]))
fromCharCode(n) == n % 65536

\* .replace(/&#x([0-9a-fA-F]+);/g, (_, hex) => String.fromCharCode(parseInt(hex, 16)))
RECURSIVE ReplaceHexFrom(_, _)
ReplaceHexFrom(s, i) ==
    IF i > Len(s) THEN <<>>
    ELSE LET to == HexRunEnd(s, i + 3)
         IN  IF StartsWithAt(s, i, <<38, 35, 120>>) /\ to > i + 3 /\ to <= Len(s) /\ s[to] = 59
             THEN <<fromCharCode(ParseDigits(SubSeq(s, i + 3, to - 1), 16, 0))>>
                  \o ReplaceHexFrom(s, to + 1)
             ELSE <<s[i]>> \o ReplaceHexFrom(s, i + 1)

\* .replace(/&#(\d+);/g, (_, num) => String.fromCharCode(parseInt(num, 10)))
RECURSIVE ReplaceDecimalFrom(_, _)
ReplaceDecimalFrom(s, i) ==
    IF i > Len(s) THEN <<>>
    ELSE LET to == DigitRunEnd(s, i + 2)
         IN  IF StartsWithAt(s, i, <<38, 35>>) /\ to > i + 2 /\ to <= Len(s) /\ s[to] = 59
             THEN <<fromCharCode(ParseDigits(SubSeq(s, i + 2, to - 1), 10, 0))>>
                  \o ReplaceDecimalFrom(s, to + 1)
             ELSE <<s[i]>> \o ReplaceDecimalFrom(s, i + 1)

\* decodeXmlEntities (part_000:20-30): seven replacements, one after the
\* other, each over the result of the one before.
decodeXmlEntities(value) ==
    IF value = <<>> THEN <<>>
    ELSE LET s1 == ReplaceAll(value, <<38, 97, 109, 112, 59>>, <<38>>)
             s2 == ReplaceAll(s1, <<38, 108, 116, 59>>, <<60>>)
             s3 == ReplaceAll(s2, <<38, 103, 116, 59>>, <<62>>)
             s4 == ReplaceAll(s3, <<38, 113, 117, 111, 116, 59>>, <<34>>)
             s5 == ReplaceAll(s4, <<38, 97, 112, 111, 115, 59>>, <<39>>)
             s6 == ReplaceHexFrom(s5, 1)
         IN  ReplaceDecimalFrom(s6, 1)

(***************************************************************************)
(* Cell values: text, number or boolean, as tagged records.                *)
(***************************************************************************)
Text(s) == [k |-> "text", s |-> s, n |-> 0, frac |-> <<>>, b |-> FALSE]
Num(n, frac) == [k |-> "num", s |-> <<>>, n |-> n, frac |-> frac, b |-> FALSE]
Bool(b) == [k |-> "bool", s |-> <<>>, n |-> 0, frac |-> <<>>, b |-> b]
Undefined == [k |-> "undefined", s |-> <<>>, n |-> 0, frac |-> <<>>, b |-> FALSE]
Empty == Text(<<>>)

\* JavaScript truthiness of a value.
Truthy(v) ==
    CASE v.k = "undefined" -> FALSE
      [] v.k = "text" -> v.s # <<>>
      [] v.k = "num" -> v.n # 0 \/ v.frac # <<>>
      [] v.k = "bool" -> v.b

\* The decimal digits of a natural number.
RECURSIVE Digits(_)
Digits(n) == IF n < 10 THEN <<48 + n>> ELSE Digits(n \div 10) \o <<48 + (n % 10)>>

\* String(value).
String(v) ==
    CASE v.k = "undefined" -> <<117, 110, 100, 101, 102, 105, 110, 101, 100>>
      [] v.k = "text" -> v.s
      [] v.k = "num" ->
            (IF v.n < 0 THEN <<45>> \o Digits(-v.n) ELSE Digits(v.n))
            \o (IF v.frac = <<>> THEN <<>> ELSE <<46>> \o v.frac)
      [] v.k = "bool" -> IF v.b THEN <<116, 114, 117, 101>> ELSE <<102, 97, 108, 115, 101>>

RECURSIVE TrimRight(_)
TrimRight(s) ==
    IF s # <<>> /\ IsSpace(s[Len(s)]) THEN TrimRight(SubSeq(s, 1, Len(s) - 1)) ELSE s
\* String.prototype.trim.
Trim(s) == TrimRight(From(s, SpaceRunEnd(s, 1)))

RECURSIVE StripZeros(_)
StripZeros(digits) ==
    IF digits # <<>> /\ digits[Len(digits)] = 48
    THEN StripZeros(SubSeq(digits, 1, Len(digits) - 1)) ELSE digits

\* Number(text) for decimal literals: surrounding white space is dropped, an
\* empty text is 0, an optional minus sign is followed by digits with an
\* optional fraction. Every other text is NaN (exponents, hex literals,
\* Infinity and negative fractions are not among the texts of the model). A number is its integer
\* part n and the digits frac of its fraction, without trailing zeros.
NaN == [nan |-> TRUE, n |-> 0, frac |-> <<>>]
\* The number whose integer digits end before intEnd and whose fraction
\* digits end before fracEnd; NaN when other characters follow or no digit
\* was read.
NumberFrom(neg, body, intEnd, hasPoint, fracEnd) ==
    IF fracEnd <= Len(body)
       \/ (intEnd - 1) + (IF hasPoint THEN fracEnd - intEnd - 1 ELSE 0) = 0
    THEN NaN
    ELSE [nan |-> FALSE,
          n |-> (IF neg THEN -ParseDigits(SubSeq(body, 1, intEnd - 1), 10, 0)
                 ELSE ParseDigits(SubSeq(body, 1, intEnd - 1), 10, 0)),
          frac |-> IF hasPoint THEN StripZeros(SubSeq(body, intEnd + 1, fracEnd - 1))
                   ELSE <<>>]

NumberPoint(neg, body, intEnd, hasPoint) ==
    NumberFrom(neg, body, intEnd, hasPoint,
               IF hasPoint THEN DigitRunEnd(body, intEnd + 1) ELSE intEnd)

NumberDigits(neg, body, intEnd) ==
    NumberPoint(neg, body, intEnd, intEnd <= Len(body) /\ body[intEnd] = 46)

NumberSigned(t, neg) ==
    NumberDigits(neg, IF neg THEN From(t, 2) ELSE t,
                 DigitRunEnd(IF neg THEN From(t, 2) ELSE t, 1))

NumberTrimmed(t) ==
    IF t = <<>> THEN [nan |-> FALSE, n |-> 0, frac |-> <<>>]
    ELSE NumberSigned(t, t[1] = 45)

Number(raw) == NumberTrimmed(Trim(raw))

(***************************************************************************)
(* Workbook parts. The regular expressions of the source are modelled by   *)
(* what they capture:                                                      *)
(*   workbook part       the (name, r:id) pairs sheetRegex matches         *)
(*   relationships part  the (Id, Target) pairs relRegex matches           *)
(*   shared strings      per <si> match, the texts of its <t> matches      *)
(*   sheet part          per <row> match, its cell matches; a cell is      *)
(*                       ref  the letters captured by r="([A-Z]+)\d+",     *)
(*                            <<>> when the pattern does not match         *)
(*                       t    the captured type attribute, "" when absent  *)
(*                       v    the captured content of the value node       *)
(*                       is   the captured text of the inline string       *)
(*                       hasV, hasIs  whether those patterns match         *)
(* book maps a part path to what extractZipEntry yields for it: the        *)
(* decoded part, or the error it throws.                                   *)
(***************************************************************************)
Part(content) == [status |-> "ok", content |-> content]
BrokenPart(kind) == [status |-> kind, content |-> <<>>]

\* extractZipEntry over the parts of a book (part_000:82-107).
extractPart(parts, entryName) ==
    IF entryName \notin DOMAIN parts THEN BrokenPart("EntryNotFound")
    ELSE parts[entryName]

\* The Map built by the while loops of parseWorkbook: later pairs of the
\* same key replace earlier ones.
RECURSIVE PairsToMap(_, _)
PairsToMap(pairs, m) ==
    IF pairs = <<>> THEN m
    ELSE PairsToMap(Tail(pairs), MapSet(m, pairs[1][1], pairs[1][2]))

\* parseWorkbook (part_000:109-126); reads lists the entry names it passed
\* to extractZipEntry.
parseWorkbook(parts) ==
    LET workbookXml == extractPart(parts, "xl/workbook.xml")
        relsXml == extractPart(parts, "xl/_rels/workbook.xml.rels")
    IN  IF workbookXml.status # "ok"
        THEN [status |-> workbookXml.status, sheets |-> NoEntries, rels |-> NoEntries,
              reads |-> <<"xl/workbook.xml">>]
        ELSE IF relsXml.status # "ok"
        THEN [status |-> relsXml.status, sheets |-> NoEntries, rels |-> NoEntries,
              reads |-> <<"xl/workbook.xml", "xl/_rels/workbook.xml.rels">>]
        ELSE [status |-> "ok",
              sheets |-> PairsToMap(workbookXml.content, NoEntries),
              rels |-> PairsToMap(relsXml.content, NoEntries),
              reads |-> <<"xl/workbook.xml", "xl/_rels/workbook.xml.rels">>]

\* The texts of one <si>: each decoded, then joined (line 142).
RECURSIVE JoinDecoded(_)
JoinDecoded(texts) ==
    IF texts = <<>> THEN <<>>
    ELSE decodeXmlEntities(texts[1]) \o JoinDecoded(Tail(texts))

\* parseSharedStrings (part_000:128-147): any failure to extract the part
\* is caught and gives the empty table.
parseSharedStrings(parts) ==
    LET xml == extractPart(parts, "xl/sharedStrings.xml")
    IN  IF xml.status # "ok" THEN <<>>
        ELSE [i \in 1..Len(xml.content) |-> JoinDecoded(xml.content[i])]

\* Mutant: the letters count from A = 0.
RECURSIVE LettersToIndexFromZero(_, _)
LettersToIndexFromZero(letters, index) ==
    IF letters = <<>> THEN index
    ELSE LettersToIndexFromZero(Tail(letters), index * 26 + (letters[1] - 65))

\* columnLettersToIndex (part_000:149-155); the letters are upper case.
RECURSIVE LettersToIndex(_, _)
LettersToIndex(letters, index) ==
    IF letters = <<>> THEN index
    ELSE LettersToIndex(Tail(letters), index * 26 + (letters[1] - 64))
columnLettersToIndex(letters) == LettersToIndex(letters, 0)

\* Mutant: the index of a shared string counts from 1.
sharedStringAtOneBased(sharedStrings, rawValue) ==
    LET index == Number(rawValue)
    IN  IF ~index.nan /\ index.frac = <<>> /\ index.n >= 1 /\ index.n <= Len(sharedStrings)
        THEN sharedStrings[index.n] ELSE <<>>

\* sharedStrings[Number(rawValue)] || '' (line 176).
sharedStringAt(sharedStrings, rawValue) ==
    LET index == Number(rawValue)
    IN  IF ~index.nan /\ index.frac = <<>> /\ index.n >= 0 /\ index.n < Len(sharedStrings)
        THEN sharedStrings[index.n + 1] ELSE <<>>

\* Mutant: no declared type keeps numeric-looking content as text.
declaredTextNever(type) == FALSE

\* Line 181: type === 'str'.
declaredText(type) == type = "str"

\* parseCellValue (part_000:157-191).
parseCellValue(cell, sharedStrings) ==
    IF cell.t = "inlineStr"
    THEN IF cell.hasIs THEN Text(decodeXmlEntities(cell.is)) ELSE Empty
    ELSE IF ~cell.hasV THEN Empty
    ELSE IF cell.v = <<>> THEN Empty
    ELSE IF cell.t = "s" THEN Text(sharedStringAt(sharedStrings, cell.v))
    ELSE IF cell.t = "b" THEN Bool(cell.v = <<49>>)
    ELSE IF declaredText(cell.t) THEN Text(decodeXmlEntities(cell.v))
    ELSE LET numeric == Number(cell.v)
         IN  IF ~numeric.nan THEN Num(numeric.n, numeric.frac)
             ELSE Text(decodeXmlEntities(cell.v))

\* Lines 215-223: the cells of one row, keyed by column index; a cell whose
\* reference does not match is skipped, a later cell of the same column
\* replaces an earlier one.
RECURSIVE RowMap(_, _, _)
RowMap(cells, sharedStrings, rowMap) ==
    IF cells = <<>> THEN rowMap
    ELSE LET cell == cells[1]
         IN  RowMap(Tail(cells), sharedStrings,
                 IF cell.ref = <<>> THEN rowMap
                 ELSE MapSet(rowMap, columnLettersToIndex(cell.ref),
                             parseCellValue(cell, sharedStrings)))

\* Array.from(rowMap.keys()).sort((a, b) => a - b)
RECURSIVE SortedKeys(_)
SortedKeys(keys) ==
    IF keys = {} THEN <<>>
    ELSE LET least == CHOOSE k \in keys : \A j \in keys : k <= j
         IN  <<least>> \o SortedKeys(keys \ {least})

\* Lines 225-229: the values of the first row in ascending column order.
headersOf(rowMap) ==
    LET keys == SortedKeys(DOMAIN rowMap)
    IN  [i \in 1..Len(keys) |-> rowMap[keys[i]]]

\* Line 236: the value a data row contributes for the header at position
\* index (0-based) of headers.
valueFor(rowMap, index) ==
    IF index + 1 \in DOMAIN rowMap THEN rowMap[index + 1] ELSE Empty

\* Lines 233-237: headers.forEach over the positions i..Len(headers).
RECURSIVE RowData(_, _, _, _)
RowData(headers, rowMap, i, rowData) ==
    IF i > Len(headers) THEN rowData
    ELSE RowData(headers, rowMap, i + 1,
             IF ~Truthy(headers[i]) THEN rowData
             ELSE MapSet(rowData, String(headers[i]), valueFor(rowMap, i - 1)))

\* Lines 212-241: the loop over the rows after the header row.
RECURSIVE DataRows(_, _, _, _)
DataRows(sheetRows, i, headers, sharedStrings) ==
    IF i > Len(sheetRows) THEN <<>>
    ELSE LET rowData == RowData(headers, RowMap(sheetRows[i], sharedStrings, NoEntries),
                                1, NoEntries)
         IN  (IF DOMAIN rowData # {} THEN <<rowData>> ELSE <<>>)
             \o DataRows(sheetRows, i + 1, headers, sharedStrings)

SheetFailed(kind, reads) == [status |-> kind, sheetPath |-> "", rows |-> <<>>, reads |-> reads]

\* Mutant: the sheet is resolved through any relationship of the workbook.
relationshipOfAny(workbook, sheetName) ==
    IF DOMAIN workbook.rels = {} THEN workbook.sheets[sheetName]
    ELSE CHOOSE relId \in DOMAIN workbook.rels : TRUE

\* Line 198: const relId = sheets.get(sheetName).
relationshipOf(workbook, sheetName) == workbook.sheets[sheetName]

\* readSheetRows (part_000:193-244); reads lists the entry names passed to
\* extractZipEntry, in call order.
readSheetRows(parts, sheetName) ==
    LET workbook == parseWorkbook(parts)
    IN  IF workbook.status # "ok" THEN SheetFailed(workbook.status, workbook.reads)
        ELSE IF sheetName \notin DOMAIN workbook.sheets
        THEN SheetFailed("SheetNotFound", workbook.reads)
        ELSE IF relationshipOf(workbook, sheetName) \notin DOMAIN workbook.rels
        THEN SheetFailed("RelationshipMissing", workbook.reads)
        ELSE LET target == workbook.rels[relationshipOf(workbook, sheetName)]
                 sheetPath == "xl/" \o target
                 sheetXml == extractPart(parts, sheetPath)
                 sharedStrings == parseSharedStrings(parts)
             IN  IF sheetXml.status # "ok"
                 THEN [status |-> sheetXml.status, sheetPath |-> sheetPath, rows |-> <<>>,
                       reads |-> Append(workbook.reads, sheetPath)]
                 ELSE [status |-> "ok", sheetPath |-> sheetPath,
                       rows |->
                           IF sheetXml.content = <<>> THEN <<>>
                           ELSE DataRows(sheetXml.content, 2,
                                    headersOf(RowMap(sheetXml.content[1],
                                                     sharedStrings, NoEntries)),
                                    sharedStrings),
                       reads |-> workbook.reads \o <<sheetPath, "xl/sharedStrings.xml">>]

(***************************************************************************)
(* Input workbooks. The sheet "Sheet A" holds a header row and up to       *)
(* MaxRows data rows over the columns A.. (1..MaxCol). A header cell is    *)
(* absent, holds the empty text, the name "H<column>", a number or a       *)
(* boolean. A data row holds a cell in every column ("full"), in the odd   *)
(* columns only ("odd"), or empty cells only ("blank"); the cell of row r, *)
(* column c is an inline string "v<r><c>", a shared string "s<r>" or the   *)
(* number 10r + c, by column.                                              *)
(***************************************************************************)
Cell(ref, t, hasV, v, hasIs, is) ==
    [ref |-> ref, t |-> t, hasV |-> hasV, v |-> v, hasIs |-> hasIs, is |-> is]

ColumnLetters(c) == <<64 + c>>

HeaderCell(c, shape) ==
    CASE shape = "zero" -> Cell(ColumnLetters(c), "", TRUE, <<48>>, FALSE, <<>>)
      [] shape = "number" -> Cell(ColumnLetters(c), "", TRUE, <<48 + c>>, FALSE, <<>>)
      [] shape = "false" -> Cell(ColumnLetters(c), "b", TRUE, <<48>>, FALSE, <<>>)
      [] shape = "true" -> Cell(ColumnLetters(c), "b", TRUE, <<49>>, FALSE, <<>>)
      [] OTHER -> Cell(ColumnLetters(c), "inlineStr", FALSE, <<>>, TRUE,
                       IF shape = "named" THEN <<72, 48 + c>> ELSE <<>>)

DataCell(r, c) ==
    CASE c % 3 = 1 ->
            Cell(ColumnLetters(c), "inlineStr", FALSE, <<>>, TRUE, <<118, 48 + r, 48 + c>>)
      [] c % 3 = 2 -> Cell(ColumnLetters(c), "s", TRUE, <<48 + r - 1>>, FALSE, <<>>)
      [] c % 3 = 0 -> Cell(ColumnLetters(c), "", TRUE, <<48 + r, 48 + c>>, FALSE, <<>>)

\* The header cells of the columns c.., in column order.
RECURSIVE HeaderCellsFrom(_, _)
HeaderCellsFrom(hdr, c) ==
    IF c > MaxCol THEN <<>>
    ELSE (IF hdr[c] # "absent" THEN <<HeaderCell(c, hdr[c])>> ELSE <<>>)
         \o HeaderCellsFrom(hdr, c + 1)
HeaderRow(hdr) == HeaderCellsFrom(hdr, 1)

\* The cells of data row r in the columns c.., in column order.
RECURSIVE DataCellsFrom(_, _, _)
DataCellsFrom(r, shape, c) ==
    IF c > MaxCol THEN <<>>
    ELSE (IF shape = "blank"
          THEN (IF c % 2 = 1
                THEN <<Cell(ColumnLetters(c), "inlineStr", FALSE, <<>>, TRUE, <<>>)>>
                ELSE <<>>)
          ELSE IF shape = "full" \/ c % 2 = 1 THEN <<DataCell(r, c)>> ELSE <<>>)
         \o DataCellsFrom(r, shape, c + 1)
DataRow(r, shape) == DataCellsFrom(r, shape, 1)

SheetRows(d) ==
    <<HeaderRow(d.hdr)>> \o [r \in 1..Len(d.data) |-> DataRow(r, d.data[r])]

SharedStringRuns == [r \in 1..MaxRows |-> <<<<115, 48 + r>>>>]

WellFormedParts(d) ==
    [path \in {"xl/workbook.xml", "xl/_rels/workbook.xml.rels",
               "xl/worksheets/sheet1.xml", "xl/sharedStrings.xml"} |->
        CASE path = "xl/workbook.xml" -> Part(<<<<"Sheet A", "rId1">>>>)
          [] path = "xl/_rels/workbook.xml.rels" ->
                Part(<<<<"rId1", "worksheets/sheet1.xml">>>>)
          [] path = "xl/worksheets/sheet1.xml" -> Part(SheetRows(d))
          [] path = "xl/sharedStrings.xml" -> Part(SharedStringRuns)]

Without(parts, path) == [q \in (DOMAIN parts) \ {path} |-> parts[q]]

GridInputs ==
    [kind : {"grid"}, hdr : [1..MaxCol -> {"absent", "empty", "named"}],
     data : SeqsUpTo({"full", "odd", "blank"}, MaxRows)]

\* Sheets whose header cells hold a text, the numbers 0 or the column
\* number, or a boolean.
TypedHeaderInputs ==
    [kind : {"grid"}, hdr : [1..MaxCol -> {"named", "zero", "number", "false", "true"}],
     data : SeqsUpTo({"full", "blank"}, MaxRows - 1)]

\* Workbooks in which the resolution of the sheet or a part read fails.
BrokenBookKinds ==
    {"noWorkbook", "noSheetDecl", "noRel", "noPart", "noStrings", "brokenStrings",
     "unsupportedStrings"}
BrokenBookInputs ==
    [kind : BrokenBookKinds, hdr : {[c \in 1..MaxCol |-> "named"]}, data : {<<"full">>}]

\* Workbooks of two sheets: "Sheet A" and "Sheet B" declared in order with
\* the relationships rId1 and rId2, declared with the two ids exchanged, or
\* "Sheet B" declared with an id that has no relationship.
TwoSheetKinds == {"twoSheets", "swapped", "danglingRel"}
TwoSheetInputs ==
    [kind : TwoSheetKinds, hdr : {[c \in 1..MaxCol |-> "named"]},
     data : SeqsUpTo({"full", "odd"}, 1)]

SecondSheetRows == <<HeaderRow([c \in 1..MaxCol |-> "named"]), DataRow(2, "odd")>>

TwoSheetParts(d) ==
    LET parts == MapSet(WellFormedParts(d), "xl/worksheets/sheet2.xml", Part(SecondSheetRows))
        sheets == CASE d.kind = "twoSheets" -> <<<<"Sheet A", "rId1">>, <<"Sheet B", "rId2">>>>
                    [] d.kind = "swapped" -> <<<<"Sheet A", "rId2">>, <<"Sheet B", "rId1">>>>
                    [] d.kind = "danglingRel" -> <<<<"Sheet A", "rId1">>, <<"Sheet B", "rId3">>>>
    IN  MapSet(MapSet(parts, "xl/workbook.xml", Part(sheets)),
               "xl/_rels/workbook.xml.rels",
               Part(<<<<"rId1", "worksheets/sheet1.xml">>, <<"rId2", "worksheets/sheet2.xml">>>>))

BookInputs == GridInputs \cup TypedHeaderInputs \cup BrokenBookInputs \cup TwoSheetInputs

PartsOf(d) ==
    LET parts == WellFormedParts(d)
    IN  CASE d.kind = "grid" -> parts
          [] d.kind \in TwoSheetKinds -> TwoSheetParts(d)
          [] d.kind = "noWorkbook" -> Without(parts, "xl/workbook.xml")
          [] d.kind = "noSheetDecl" ->
                MapSet(parts, "xl/workbook.xml", Part(<<<<"Sheet B", "rId1">>>>))
          [] d.kind = "noRel" ->
                MapSet(parts, "xl/_rels/workbook.xml.rels",
                       Part(<<<<"rId2", "worksheets/sheet1.xml">>>>))
          [] d.kind = "noPart" -> Without(parts, "xl/worksheets/sheet1.xml")
          [] d.kind = "noStrings" -> Without(parts, "xl/sharedStrings.xml")
          [] d.kind = "brokenStrings" ->
                MapSet(parts, "xl/sharedStrings.xml", BrokenPart("InvalidLocalHeader"))
          [] d.kind = "unsupportedStrings" ->
                MapSet(parts, "xl/sharedStrings.xml", BrokenPart("UnsupportedCompression"))

(***************************************************************************)
(* The sheet reader as a state machine: readSheetRows is called on the     *)
(* parts of a workbook with a sheet name.                                  *)
(***************************************************************************)
InitSheet ==
    /\ pc = "start"
    /\ verification = None /\ exitCode = None
    /\ args = None /\ returned = None
    /\ input \in BookInputs
    /\ book = PartsOf(input)
    /\ rows = None
    /\ buffer = <<>> /\ zipData = None /\ extracted = None
    /\ sheet1 = None /\ sheet2 = None /\ sheet1Data = None /\ matchedData = None

SheetNames == {"Sheet A", "Sheet B"}

ReadSheetRows ==
    /\ pc = "start"
    /\ \E sheetName \in SheetNames :
          rows' = [sheetName |-> sheetName, result |-> readSheetRows(book, sheetName)]
    /\ pc' = "rowsRead"
    /\ UNCHANGED <<runVars, input, book, zipVars, mapVars, callVars>>

NextSheet == ReadSheetRows

SpecSheet == InitSheet /\ [][NextSheet]_vars

(***************************************************************************)
(* Claims about the sheet reader, checked under SpecSheet.                 *)
(***************************************************************************)
RowsRead == pc = "rowsRead" /\ rows.result.status = "ok"

\* The sheet part that was read, and its rows as maps from column index to
\* decoded value.
SheetRead == book[rows.result.sheetPath].content
DecodedRow(i) == RowMap(SheetRead[i], parseSharedStrings(book), NoEntries)
CellValueAt(i, k) == IF k \in DOMAIN DecodedRow(i) THEN DecodedRow(i)[k] ELSE Empty

\* C1: for every header cell of the first decoded row, at column index k
\* with a non-empty value h, and for every later row, the Record of that row
\* has a field h equal to the row's cell value at column k, empty when the
\* row has no cell at k; also when a column between the first and the last
\* header cell has no cell.
C1_HeaderPairing ==
    (RowsRead /\ SheetRead # <<>>) =>
        \A k \in DOMAIN DecodedRow(1) :
            DecodedRow(1)[k] # Empty =>
                \A i \in 2..Len(SheetRead) :
                    /\ i - 1 <= Len(rows.result.rows)
                    /\ String(DecodedRow(1)[k]) \in DOMAIN rows.result.rows[i - 1]
                    /\ rows.result.rows[i - 1][String(DecodedRow(1)[k])] = CellValueAt(i, k)

Members(seq) == {seq[i] : i \in 1..Len(seq)}

\* The decoded values of the header cells of the sheet that was read.
HeaderValues == {DecodedRow(1)[k] : k \in DOMAIN DecodedRow(1)}

Records == Members(rows.result.rows)

\* C19: a column contributes no field to any Record exactly when its header
\* cell decoded to the empty text: the fields of every Record are the names
\* of the headers that decoded to a non-empty value, be it a text, a number
\* or a boolean, and an empty header contributes none even when later rows
\* have values in its column.
C19_HeaderSkip ==
    (RowsRead /\ SheetRead # <<>>) =>
        \A record \in Records :
            DOMAIN record = {String(header) : header \in HeaderValues \ {Empty}}

\* C20: every Record returned by readSheetRows has at least one non-empty
\* field value: a data row whose value is empty or absent at every header
\* column is dropped and produces no Record.
C20_NoEmptyRecord ==
    RowsRead => \A record \in Records : \E field \in DOMAIN record : record[field] # Empty

PartRead(path) == path \in DOMAIN book /\ book[path].status = "ok"
WorkbookRead ==
    /\ pc = "rowsRead"
    /\ PartRead("xl/workbook.xml") /\ PartRead("xl/_rels/workbook.xml.rels")

\* The relationship ids declared for a sheet name in the workbook part and
\* the targets of a relationship id in the relationships part.
DeclaredIds(sheetName) ==
    {pair[2] : pair \in {q \in Members(book["xl/workbook.xml"].content) : q[1] = sheetName}}
TargetsOf(relId) ==
    {pair[2] : pair \in {q \in Members(book["xl/_rels/workbook.xml.rels"].content) :
                            q[1] = relId}}
DeclaredTargets(sheetName) == UNION {TargetsOf(relId) : relId \in DeclaredIds(sheetName)}

WorkbookParts == {"xl/workbook.xml", "xl/_rels/workbook.xml.rels"}

\* C12: readSheetRows reads, for a sheet name, the part that is the target
\* of the relationship whose id the workbook part declares for that name; it
\* fails with the sheet-not-found error when the name is not declared and
\* with the relationship-target-missing error when the declared id has no
\* target, and in both cases nothing but the workbook and relationships
\* parts is extracted.
C12_SheetResolution ==
    WorkbookRead =>
        /\ DeclaredIds(rows.sheetName) = {} =>
              /\ rows.result.status = "SheetNotFound"
              /\ Members(rows.result.reads) \subseteq WorkbookParts
        /\ (DeclaredIds(rows.sheetName) # {} /\ DeclaredTargets(rows.sheetName) = {}) =>
              /\ rows.result.status = "RelationshipMissing"
              /\ Members(rows.result.reads) \subseteq WorkbookParts
        /\ DeclaredTargets(rows.sheetName) # {} =>
              /\ rows.result.status \notin {"SheetNotFound", "RelationshipMissing"}
              /\ rows.result.sheetPath \in {"xl/" \o target : target \in DeclaredTargets(rows.sheetName)}
              /\ Len(rows.result.reads) >= 3 /\ rows.result.reads[3] = rows.result.sheetPath
              /\ Members(rows.result.reads) \subseteq
                    WorkbookParts \cup {rows.result.sheetPath, "xl/sharedStrings.xml"}

\* The second declared sheet is read from the part of the first relationship.
C12_Witness ==
    /\ WorkbookRead /\ input.kind = "swapped"
    /\ rows.sheetName = "Sheet B"
    /\ rows.result.status = "ok"
    /\ rows.result.sheetPath = "xl/worksheets/sheet1.xml"
    /\ rows.result.rows # <<>>

\* parseSharedStrings was called: the sheet part had been extracted.
SharedStringsAsked ==
    /\ pc = "rowsRead"
    /\ "xl/sharedStrings.xml" \in Members(rows.result.reads)

\* C13: when the shared-string part is absent from the archive,
\* parseSharedStrings returns the empty sequence and the sheet is decoded;
\* when the part is in the entry table and extracting it fails with a
\* corrupt local header or an unsupported compression method, the failure
\* reaches the caller of readSheetRows instead of an empty table being used.
C13_SharedStringsFailure ==
    SharedStringsAsked =>
        /\ "xl/sharedStrings.xml" \notin DOMAIN book =>
              /\ parseSharedStrings(book) = <<>>
              /\ rows.result.status = "ok"
        /\ ("xl/sharedStrings.xml" \in DOMAIN book
            /\ book["xl/sharedStrings.xml"].status
                  \in {"InvalidLocalHeader", "UnsupportedCompression"}) =>
              rows.result.status = book["xl/sharedStrings.xml"].status

(***************************************************************************)
(* parseCellValue as a state machine: it is called on a cell and a table   *)
(* of shared strings. The content of a value node is one of a few texts:   *)
(* numerals, an index beyond every table, white space, words, a text with  *)
(* an entity.                                                              *)
(***************************************************************************)
CellTypes == {"", "s", "b", "str", "inlineStr", "n", "e"}
CellContents ==
    {<<>>, <<48>>, <<49>>, <<50>>, <<53, 48, 48>>, <<49, 46, 53>>, <<45, 51>>,
     <<32, 55, 32>>, <<32>>, <<116, 114, 117, 101>>, <<97, 98, 99>>, <<49, 120>>,
     <<38, 108, 116, 59, 98>>}
InlineTexts == {<<>>, <<55>>, <<97, 38, 97, 109, 112, 59, 98>>}

\* The table of n shared strings "t1".."tn", the second one empty.
SharedTable(n) == [i \in 1..n |-> IF i = 2 THEN <<>> ELSE <<116, 48 + i>>]

CellInputs ==
    [t : CellTypes, hasV : BOOLEAN, v : CellContents, hasIs : BOOLEAN, is : InlineTexts,
     strings : 0..MaxStrings]

\* An absent node has no content.
CellShaped(d) == (d.hasV \/ d.v = <<>>) /\ (d.hasIs \/ d.is = <<>>)

InitCell ==
    /\ pc = "start"
    /\ verification = None /\ exitCode = None
    /\ input \in {d \in CellInputs : CellShaped(d)}
    /\ args = [cellXml |-> Cell(<<65, 49>>, input.t, input.hasV, input.v, input.hasIs, input.is),
               sharedStrings |-> SharedTable(input.strings)]
    /\ returned = None
    /\ buffer = <<>> /\ zipData = None /\ extracted = None
    /\ book = None /\ rows = None
    /\ sheet1 = None /\ sheet2 = None /\ sheet1Data = None /\ matchedData = None

ParseCellValue ==
    /\ pc = "start"
    /\ returned' = parseCellValue(args.cellXml, args.sharedStrings)
    /\ pc' = "returned"
    /\ UNCHANGED <<runVars, input, args, buffer, zipData, extracted, sheetVars, mapVars>>

NextCell == ParseCellValue

SpecCell == InitCell /\ [][NextCell]_vars

(***************************************************************************)
(* Claims about parseCellValue, checked under SpecCell.                    *)
(***************************************************************************)
Returned == pc = "returned"

\* The content is a shared-string index: a numeral of digits only.
IsIndex(content) == content # <<>> /\ \A i \in 1..Len(content) : IsDigit(content[i])
RECURSIVE IndexValue(_)
IndexValue(content) ==
    IF content = <<>> THEN 0
    ELSE 10 * IndexValue(SubSeq(content, 1, Len(content) - 1)) + (content[Len(content)] - 48)

\* C14: for a cell of type 's', parseCellValue returns sharedStrings[i] when
\* the content of the value node is an index i inside the table, and the
\* empty text, without an error, when the index is outside the table or the
\* cell has no value node.
C14_SharedStringIndex ==
    (Returned /\ args.cellXml.t = "s") =>
        /\ returned.k = "text"
        /\ ~args.cellXml.hasV => returned = Empty
        /\ (args.cellXml.hasV /\ IsIndex(args.cellXml.v)) =>
              IF IndexValue(args.cellXml.v) < Len(args.sharedStrings)
              THEN returned = Text(args.sharedStrings[IndexValue(args.cellXml.v) + 1])
              ELSE returned = Empty

\* Index 500 is looked up in a table of three entries.
C14_Witness ==
    /\ Returned /\ args.cellXml.t = "s" /\ args.cellXml.hasV
    /\ args.cellXml.v = <<53, 48, 48>>
    /\ Len(args.sharedStrings) = 3
    /\ returned = Empty

\* C15: for a cell of type 'b' that has a value node, parseCellValue returns
\* boolean true when the content of the value node is exactly "1" and
\* boolean false for every other content, the empty content included.
C15_BooleanCell ==
    (Returned /\ args.cellXml.t = "b" /\ args.cellXml.hasV) =>
        returned = Bool(args.cellXml.v = <<49>>)

\* The text is a decimal literal: an optional minus sign, digits, at most one
\* point, at least one digit.
DecimalLiteral(text) ==
    LET body == IF text # <<>> /\ text[1] = 45 THEN Tail(text) ELSE text
    IN  /\ \A i \in 1..Len(body) : IsDigit(body[i]) \/ body[i] = 46
        /\ Cardinality({i \in 1..Len(body) : body[i] = 46}) <= 1
        /\ \E i \in 1..Len(body) : IsDigit(body[i])

\* The content parses as a number under Number(): a decimal literal with
\* optional white space around it; blank content is the number 0.
ParsesAsNumber(content) == Trim(content) = <<>> \/ DecimalLiteral(Trim(content))

\* C16: for a cell with no type attribute or an unrecognized type whose value
\* node has content, parseCellValue returns a number when the content parses
\* as a number and the entity-decoded content as text otherwise; a cell of
\* type 'str' or 'inlineStr' is returned as text also when its content looks
\* numeric.
C16_UntypedCell ==
    Returned =>
        /\ (args.cellXml.t \notin {"s", "b", "str", "inlineStr"}
            /\ args.cellXml.hasV /\ args.cellXml.v # <<>>) =>
              IF ParsesAsNumber(args.cellXml.v)
              THEN /\ returned.k = "num"
                   /\ returned = Num(Number(args.cellXml.v).n, Number(args.cellXml.v).frac)
              ELSE returned = Text(decodeXmlEntities(args.cellXml.v))
        /\ args.cellXml.t \in {"str", "inlineStr"} => returned.k = "text"
        /\ (args.cellXml.t = "str" /\ args.cellXml.hasV) =>
              returned = Text(decodeXmlEntities(args.cellXml.v))
        /\ (args.cellXml.t = "inlineStr" /\ args.cellXml.hasIs) =>
              returned = Text(decodeXmlEntities(args.cellXml.is))

\* A cell of type 'str' with the content "2" is returned as the text "2".
C16_Witness ==
    /\ Returned /\ args.cellXml.t = "str" /\ args.cellXml.hasV
    /\ args.cellXml.v = <<50>>
    /\ returned = Text(<<50>>)

(***************************************************************************)
(* decodeXmlEntities as a state machine: it is called on a text composed   *)
(* of up to MaxTokens pieces: entities, the tails of entities, a lone      *)
(* ampersand, a letter, unknown and malformed entities.                    *)
(***************************************************************************)
EntityTokens ==
    {<<38, 97, 109, 112, 59>>,              \* &amp;
     <<38, 108, 116, 59>>,                  \* &lt;
     <<108, 116, 59>>,                      \* lt;
     <<38, 103, 116, 59>>,                  \* &gt;
     <<38, 113, 117, 111, 116, 59>>,        \* &quot;
     <<38, 97, 112, 111, 115, 59>>,         \* &apos;
     <<38, 35, 54, 53, 59>>,                \* &#65;
     <<35, 54, 53, 59>>,                    \* #65;
     <<38, 35, 120, 50, 54, 59>>,           \* &#x26;
     <<38, 35, 120, 52, 97, 59>>,           \* &#x4a;
     <<38, 98, 111, 103, 117, 115, 59>>,    \* &bogus;
     <<38, 35, 59>>,                        \* &#;
     <<38>>,                                \* &
     <<97>>}                                \* a

RECURSIVE Flatten(_)
Flatten(pieces) == IF pieces = <<>> THEN <<>> ELSE pieces[1] \o Flatten(Tail(pieces))

InitDecode ==
    /\ pc = "start"
    /\ verification = None /\ exitCode = None
    /\ input \in SeqsUpTo(EntityTokens, MaxTokens)
    /\ args = Flatten(input)
    /\ returned = None
    /\ buffer = <<>> /\ zipData = None /\ extracted = None
    /\ book = None /\ rows = None
    /\ sheet1 = None /\ sheet2 = None /\ sheet1Data = None /\ matchedData = None

DecodeXmlEntities ==
    /\ pc = "start"
    /\ returned' = decodeXmlEntities(args)
    /\ pc' = "returned"
    /\ UNCHANGED <<runVars, input, args, buffer, zipData, extracted, sheetVars, mapVars>>

NextDecode == DecodeXmlEntities

SpecDecode == InitDecode /\ [][NextDecode]_vars

(***************************************************************************)
(* Claims about decodeXmlEntities, checked under SpecDecode.               *)
(***************************************************************************)
NamedEntities ==
    {<<<<38, 97, 109, 112, 59>>, 38>>, <<<<38, 108, 116, 59>>, 60>>,
     <<<<38, 103, 116, 59>>, 62>>, <<<<38, 113, 117, 111, 116, 59>>, 34>>,
     <<<<38, 97, 112, 111, 115, 59>>, 39>>}

\* The entity that starts at position i of s, as <<length, character>>;
\* <<0, 0>> when none does.
EntityAt(s, i) ==
    LET named == {e \in NamedEntities : StartsWithAt(s, i, e[1])}
        hexEnd == HexRunEnd(s, i + 3)
        decEnd == DigitRunEnd(s, i + 2)
    IN  IF named # {}
        THEN LET e == CHOOSE x \in named : TRUE IN <<Len(e[1]), e[2]>>
        ELSE IF StartsWithAt(s, i, <<38, 35, 120>>) /\ hexEnd > i + 3
                /\ hexEnd <= Len(s) /\ s[hexEnd] = 59
        THEN <<hexEnd - i + 1, ParseDigits(SubSeq(s, i + 3, hexEnd - 1), 16, 0)>>
        ELSE IF StartsWithAt(s, i, <<38, 35>>) /\ decEnd > i + 2
                /\ decEnd <= Len(s) /\ s[decEnd] = 59
        THEN <<decEnd - i + 1, ParseDigits(SubSeq(s, i + 2, decEnd - 1), 10, 0)>>
        ELSE <<0, 0>>

\* A single-pass decoder: the text is read once from left to right, an
\* entity becomes its character, everything else is copied.
RECURSIVE SinglePassDecode(_, _)
SinglePassDecode(s, i) ==
    IF i > Len(s) THEN <<>>
    ELSE IF EntityAt(s, i)[1] > 0
    THEN <<EntityAt(s, i)[2]>> \o SinglePassDecode(s, i + EntityAt(s, i)[1])
    ELSE <<s[i]>> \o SinglePassDecode(s, i + 1)

\* C17: decodeXmlEntities agrees with a single-pass XML entity decoder on
\* every text: each named, decimal or hexadecimal entity of the input is
\* replaced once by its character, the characters a replacement produced are
\* not read again as part of another entity ("&amp;lt;" gives "&lt;"), and
\* an unrecognized entity pattern is copied as it is.
C17_SinglePassDecoder ==
    Returned => returned = SinglePassDecode(args, 1)

(***************************************************************************)
(* columnLettersToIndex as a state machine: it is called on 1..MaxLetters  *)
(* letters A..Z.                                                           *)
(***************************************************************************)
LetterInputs == UNION {[1..n -> 65..90] : n \in 1..MaxLetters}

InitColumn ==
    /\ pc = "start"
    /\ verification = None /\ exitCode = None
    /\ input \in LetterInputs
    /\ args = input
    /\ returned = None
    /\ buffer = <<>> /\ zipData = None /\ extracted = None
    /\ book = None /\ rows = None
    /\ sheet1 = None /\ sheet2 = None /\ sheet1Data = None /\ matchedData = None

ColumnLettersToIndex ==
    /\ pc = "start"
    /\ returned' = columnLettersToIndex(args)
    /\ pc' = "returned"
    /\ UNCHANGED <<runVars, input, args, buffer, zipData, extracted, sheetVars, mapVars>>

NextColumn == ColumnLettersToIndex

SpecColumn == InitColumn /\ [][NextColumn]_vars

(***************************************************************************)
(* Claims about columnLettersToIndex, checked under SpecColumn.            *)
(***************************************************************************)
RECURSIVE Power26(_)
Power26(n) == IF n = 0 THEN 1 ELSE 26 * Power26(n - 1)

\* The bijective base-26 value of letters: the digit of each letter, A = 1 to
\* Z = 26, weighted by the power of 26 of its place.
RECURSIVE BijectiveValue(_)
BijectiveValue(letters) ==
    IF letters = <<>> THEN 0
    ELSE (letters[1] - 64) * Power26(Len(letters) - 1) + BijectiveValue(Tail(letters))

\* The letters of a column index: the inverse of the bijective numeration.
RECURSIVE IndexToLetters(_)
IndexToLetters(index) ==
    IF index <= 0 THEN <<>>
    ELSE IndexToLetters((index - 1) \div 26) \o <<65 + ((index - 1) % 26)>>

\* C18: columnLettersToIndex returns, for every non-empty string of letters
\* A..Z, its bijective base-26 value with A = 1 .. Z = 26, so that A is 1,
\* Z is 26, AA is 27, AZ is 52 and BA is 53; the letters can be recovered
\* from the index, so distinct letter strings have distinct indices.
C18_BijectiveBase26 ==
    Returned =>
        /\ returned = BijectiveValue(args)
        /\ IndexToLetters(returned) = args
        /\ args = <<65>> => returned = 1
        /\ args = <<90>> => returned = 26
        /\ args = <<65, 65>> => returned = 27
        /\ args = <<65, 90>> => returned = 52
        /\ args = <<66, 65>> => returned = 53

\* The index of BA was computed.
C18_Witness == Returned /\ args = <<66, 65>> /\ returned = 53

(***************************************************************************)
(* Dates. A Date is its time value in days since 1970-01-01T00:00Z: whole  *)
(* days and the decimal digits of the fraction of a day; an Invalid Date   *)
(* has no time value (getTime() is NaN). The process runs in UTC.          *)
(***************************************************************************)
excelEpochOffsetDays == 25569
\* The largest time value of a Date is 8.64e15 ms: 100,000,000 days.
MaxDateDays == 100000000

Null == [k |-> "null", days |-> 0, frac |-> <<>>]
DateAt(days, frac) == [k |-> "date", days |-> days, frac |-> frac]
InvalidDate == [k |-> "invalid", days |-> 0, frac |-> <<>>]

\* new Date(ms) for ms = (days + 0.frac) * 86400000.
NewDate(days, frac) ==
    IF days > MaxDateDays \/ (days = MaxDateDays /\ frac # <<>>) \/ days < -MaxDateDays
    THEN InvalidDate ELSE DateAt(days, frac)

\* The civil date of a day number (proleptic Gregorian calendar).
CivilFromDays(z) ==
    LET zz == z + 719468
        era == zz \div 146097
        doe == zz - era * 146097
        yoe == (doe - doe \div 1460 + doe \div 36524 - doe \div 146096) \div 365
        doy == doe - (365 * yoe + yoe \div 4 - yoe \div 100)
        mp == (5 * doy + 2) \div 153
        m == IF mp < 10 THEN mp + 3 ELSE mp - 9
    IN  [year |-> yoe + era * 400 + (IF m <= 2 THEN 1 ELSE 0), month |-> m,
         day |-> doy - (153 * mp + 2) \div 5 + 1]

DaysFromCivil(y, m, d) ==
    LET yy == IF m <= 2 THEN y - 1 ELSE y
        era == yy \div 400
        yoe == yy - era * 400
        doy == (153 * (IF m > 2 THEN m - 3 ELSE m + 9) + 2) \div 5 + d - 1
        doe == yoe * 365 + yoe \div 4 - yoe \div 100 + doy
    IN  era * 146097 + doe - 719468

\* Date.parse / new Date(text) for the texts of the model: the ISO form
\* YYYY-MM-DD of an existing calendar day gives midnight UTC of that day,
\* every other text is not a date.
ParseDateText(text) ==
    LET isIso == /\ Len(text) = 10 /\ text[5] = 45 /\ text[8] = 45
                 /\ \A i \in {1, 2, 3, 4, 6, 7, 9, 10} : IsDigit(text[i])
        y == ParseDigits(SubSeq(text, 1, 4), 10, 0)
        m == ParseDigits(SubSeq(text, 6, 7), 10, 0)
        d == ParseDigits(SubSeq(text, 9, 10), 10, 0)
    IN  IF isIso /\ m >= 1 /\ m <= 12 /\ d >= 1
           /\ CivilFromDays(DaysFromCivil(y, m, d)) = [year |-> y, month |-> m, day |-> d]
        THEN DateAt(DaysFromCivil(y, m, d), <<>>)
        ELSE InvalidDate

\* Number(value) of a value of any type.
NumberOf(v) ==
    CASE v.k = "undefined" -> NaN
      [] v.k = "text" -> Number(v.s)
      [] v.k = "num" -> [nan |-> FALSE, n |-> v.n, frac |-> v.frac]
      [] v.k = "bool" -> [nan |-> FALSE, n |-> (IF v.b THEN 1 ELSE 0), frac |-> <<>>]

\* Lines 254-257 and 265-268: the fallback to calendar-string parsing.
stringDateOrNull(serial) ==
    IF serial.k = "text" /\ ParseDateText(serial.s).k = "date"
    THEN ParseDateText(serial.s) ELSE Null

\* getFullYear() of a Date; NaN for an Invalid Date, for which both
\* comparisons of line 264 are false.
yearOutOfRange(jsDate) ==
    /\ jsDate.k = "date"
    /\ \/ CivilFromDays(jsDate.days).year < 1900
       \/ CivilFromDays(jsDate.days).year > 2100

\* Mutant: the serial counts from one day later.
daysSinceEpochOffByOne(serialNumber) == serialNumber.n - excelEpochOffsetDays + 1

\* Line 261: serialNumber - excelEpochOffsetDays, in whole days.
daysSinceEpoch(serialNumber) == serialNumber.n - excelEpochOffsetDays

\* excelSerialDateToJSDate (part_000:251-272, list-multiple-ids.js:230-258).
\* Lines 264-271, for the Date of line 262.
serialDateOr(serial, jsDate) ==
    IF yearOutOfRange(jsDate) THEN stringDateOrNull(serial) ELSE jsDate

\* Lines 253-271, for the Number of line 252.
serialDateOf(serial, serialNumber) ==
    IF serialNumber.nan \/ serialNumber.n < 0
       \/ (serialNumber.n = 0 /\ serialNumber.frac = <<>>)
    THEN stringDateOrNull(serial)
    ELSE serialDateOr(serial, NewDate(daysSinceEpoch(serialNumber), serialNumber.frac))

excelSerialDateToJSDate(serial) == serialDateOf(serial, NumberOf(serial))

\* parseDate (part_000:274-283, list-multiple-ids.js:264-280).
parseDate(value) ==
    IF ~Truthy(value) THEN Null
    ELSE IF value.k = "num" THEN excelSerialDateToJSDate(value)
    ELSE IF value.k = "text"
    THEN IF ParseDateText(value.s).k = "date" THEN ParseDateText(value.s) ELSE Null
    ELSE Null

\* a < b for the fractions of a day 0.a and 0.b, digit by digit.
RECURSIVE FracLess(_, _)
FracLess(a, b) ==
    IF b = <<>> THEN FALSE
    ELSE IF a = <<>> THEN \E i \in 1..Len(b) : b[i] # 48
    ELSE IF a[1] # b[1] THEN a[1] < b[1]
    ELSE FracLess(Tail(a), Tail(b))

\* a.getTime() < b.getTime() for two valid Dates.
TimeLess(a, b) == a.days < b.days \/ (a.days = b.days /\ FracLess(a.frac, b.frac))

Pad2(n) == IF n < 10 THEN <<48>> \o Digits(n) ELSE Digits(n)

\* The seconds into the day of a Date, from the first five digits of its
\* fraction of a day.
SecondsOfDay(frac) ==
    LET padded == SubSeq(frac \o Fill(5, 48), 1, 5)
    IN  (ParseDigits(padded, 10, 0) * 864) \div 1000

\* MM/DD/YYYY HH:MM:SS of a Date (list-multiple-ids.js:293-301); every
\* getter of an Invalid Date is NaN.
formatLocal(date) ==
    LET civil == CivilFromDays(date.days)
        secs == SecondsOfDay(date.frac)
        nan == <<78, 97, 78>>
    IN  IF date.k = "invalid"
        THEN nan \o <<47>> \o nan \o <<47>> \o nan \o <<32>> \o nan \o <<58>> \o nan \o <<58>> \o nan
        ELSE Pad2(civil.month) \o <<47>> \o Pad2(civil.day) \o <<47>> \o Digits(civil.year)
             \o <<32>> \o Pad2(secs \div 3600) \o <<58>> \o Pad2((secs \div 60) % 60)
             \o <<58>> \o Pad2(secs % 60)

\* formatDate (list-multiple-ids.js:285-302) of a value that is not a Date.
formatDate(date) ==
    IF ~Truthy(date) THEN Empty
    ELSE IF parseDate(date).k = "null" THEN date
    ELSE Text(formatLocal(parseDate(date)))

(***************************************************************************)
(* Sheets of the mapper: a row is a function from column names to values,  *)
(* as sheet_to_json returns it; a column without a cell is absent.         *)
(***************************************************************************)
COLUMNS_TO_MAP == <<"Billing Start Date", "Billing End Date", "Status", "Products",
                    "Discount", "Coupon">>

\* row[columnName]
Get(row, columnName) == IF columnName \in DOMAIN row THEN row[columnName] ELSE Undefined

toLowerCase(s) == [i \in 1..Len(s) |-> IF s[i] >= 65 /\ s[i] <= 90 THEN s[i] + 32 ELSE s[i]]

\* !email || typeof email !== 'string'
validEmail(email) == Truthy(email) /\ email.k = "text"

normalizeEmail(email) == Trim(toLowerCase(email.s))

\* The entries pushed to the group of an email, in sheet order.
RECURSIVE groupOf(_, _, _)
groupOf(jsonData, index, normalizedEmail) ==
    IF index > Len(jsonData) THEN <<>>
    ELSE LET row == jsonData[index]
             email == Get(row, "Stripe Customer Email")
         IN  (IF validEmail(email) /\ normalizeEmail(email) = normalizedEmail
              THEN <<[rowIndex |-> index - 1, row |-> row,
                      createDate |-> parseDate(Get(row, "Most Recent Create Date"))]>>
              ELSE <<>>)
             \o groupOf(jsonData, index + 1, normalizedEmail)

groupKeys(jsonData) ==
    {normalizeEmail(Get(jsonData[i], "Stripe Customer Email")) :
        i \in {j \in 1..Len(jsonData) : validEmail(Get(jsonData[j], "Stripe Customer Email"))}}

\* The comparator of the sort, as the sign the sort acts on: a NaN result
\* (an Invalid Date on either side) counts as +0.
compareCreateDate(a, b) ==
    IF a.createDate.k = "null" /\ b.createDate.k = "null" THEN 0
    ELSE IF a.createDate.k = "null" THEN 1
    ELSE IF b.createDate.k = "null" THEN -1
    ELSE IF a.createDate.k = "invalid" \/ b.createDate.k = "invalid" THEN 0
    ELSE IF TimeLess(a.createDate, b.createDate) THEN 1
    ELSE IF TimeLess(b.createDate, a.createDate) THEN -1
    ELSE 0

\* Array.prototype.sort is stable; with a comparator that is not a
\* consistent ordering of the elements the resulting order is
\* implementation-defined.
consistentComparator(group) ==
    LET I == 1..Len(group)
        c(i, j) == compareCreateDate(group[i], group[j])
    IN  /\ \A i, j \in I : c(i, j) = -c(j, i)
        /\ \A i, j, k \in I : (c(i, j) = 0 /\ c(j, k) = 0) => c(i, k) = 0
        /\ \A i, j, k \in I : (c(i, j) < 0 /\ c(j, k) < 0) => c(i, k) < 0

RECURSIVE insertSorted(_, _)
insertSorted(sorted, x) ==
    IF sorted = <<>> THEN <<x>>
    ELSE IF compareCreateDate(sorted[Len(sorted)], x) <= 0 THEN Append(sorted, x)
    ELSE Append(insertSorted(SubSeq(sorted, 1, Len(sorted) - 1), x), sorted[Len(sorted)])

RECURSIVE stableSort(_, _)
stableSort(group, sorted) ==
    IF group = <<>> THEN sorted ELSE stableSort(Tail(group), insertSorted(sorted, Head(group)))

permutationsOf(group) ==
    {[i \in 1..Len(group) |-> group[f[i]]] :
        f \in {g \in [1..Len(group) -> 1..Len(group)] : \A i, j \in 1..Len(group) : g[i] = g[j] => i = j}}

sortOutcomes(group) ==
    IF consistentComparator(group) THEN {stableSort(group, <<>>)} ELSE permutationsOf(group)

\* rows[0].row after the sort.
selectedRows(group) == {sorted[1].row : sorted \in sortOutcomes(group)}

\* processSheet1 (list-multiple-ids.js:358-416): the maps it can return.
processSheet1(jsonData) ==
    {emailToRowMap \in [groupKeys(jsonData) -> {jsonData[i] : i \in 1..Len(jsonData)}] :
        \A email \in groupKeys(jsonData) :
            emailToRowMap[email] \in selectedRows(groupOf(jsonData, 1, email))}

\* buildLatestRowMap (part_000:342-364) groups, sorts and selects as
\* processSheet1 does.
buildLatestRowMap(sheet1Rows) == processSheet1(sheet1Rows)

isDateColumn(columnName) == columnName \in {"Billing Start Date", "Billing End Date"}

\* Lines 459-468: the value written to a column of a matched row.
mappedValue(columnName, value) ==
    IF isDateColumn(columnName) /\ Truthy(value) THEN formatDate(value)
    ELSE IF value.k # "undefined" THEN value ELSE Empty

\* Lines 452-470: the output row of a match.
matchedRowOf(email, sheet1Row) ==
    [c \in {"Email"} \cup {COLUMNS_TO_MAP[i] : i \in 1..Len(COLUMNS_TO_MAP)} |->
        IF c = "Email" THEN email ELSE mappedValue(c, Get(sheet1Row, c))]

sheet1RowForRaw(sheet1DataMap, email) ==
    IF email.s \in DOMAIN sheet1DataMap THEN <<sheet1DataMap[email.s]>> ELSE <<>>

\* sheet1Data.get(normalizedEmail): the row as a sequence of length 0 or 1.
sheet1RowFor(sheet1DataMap, email) ==
    IF normalizeEmail(email) \in DOMAIN sheet1DataMap
    THEN <<sheet1DataMap[normalizeEmail(email)]>> ELSE <<>>

RECURSIVE matchLoop(_, _, _, _)
matchLoop(sheet1DataMap, sheet2Data, index, acc) ==
    IF index > Len(sheet2Data) THEN acc
    ELSE LET email == Get(sheet2Data[index], "Email")
             found == IF validEmail(email) THEN sheet1RowFor(sheet1DataMap, email) ELSE <<>>
         IN  matchLoop(sheet1DataMap, sheet2Data, index + 1,
                IF found = <<>>
                THEN [acc EXCEPT !.noMatchCount = @ + 1]
                ELSE [acc EXCEPT !.matchedRows = Append(@, matchedRowOf(email, found[1])),
                                 !.matchCount = @ + 1])

\* matchAndMapFields (list-multiple-ids.js:433-488).
matchAndMapFields(sheet1DataMap, sheet2Data) ==
    LET done == matchLoop(sheet1DataMap, sheet2Data, 1,
                          [matchedRows |-> <<>>, matchCount |-> 0, noMatchCount |-> 0])
    IN  [rows |-> done.matchedRows,
         stats |-> [total |-> Len(sheet2Data), matched |-> done.matchCount,
                    unmatched |-> done.noMatchCount]]

\* listUnmatchedEmails (part_001:22-62): the sheet-2 row indexes it lists.
sheet1Emails(sheet1Rows) == groupKeys(sheet1Rows)

unmatchedEmails(sheet1Rows, sheet2Rows) ==
    {index \in 1..Len(sheet2Rows) :
        LET email == Get(sheet2Rows[index], "Email")
        IN  ~validEmail(email) \/ normalizeEmail(email) \notin sheet1Emails(sheet1Rows)}

(***************************************************************************)
(* Workbooks of the mapper.                                                *)
(***************************************************************************)
NotADate == Text(<<110, 47, 97>>)                               \* "n/a"
IsoDate == Text(<<50, 48, 50, 51, 45, 48, 51, 45, 49, 54>>)     \* "2023-03-16"
HugeSerial == Num(200000000, <<>>)      \* a serial beyond the range of Date

\* The mapped columns of sheet-1 row number index, in one of three styles.
ColumnValue(style, index, columnName) ==
    CASE style = 0 ->
            (CASE columnName = "Billing Start Date" -> Num(45000 + index, <<>>)
               [] columnName = "Billing End Date" -> Num(45030 + index, <<53>>)
               [] columnName = "Status" -> Text(<<83>> \o Digits(index))
               [] columnName = "Products" -> Text(<<80>>)
               [] columnName = "Discount" -> Num(index, <<>>)
               [] OTHER -> Undefined)
      [] style = 1 ->
            (CASE columnName = "Billing Start Date" -> NotADate
               [] columnName = "Billing End Date" -> Num(0, <<>>)
               [] columnName = "Status" -> Bool(FALSE)
               [] columnName = "Products" -> Empty
               [] columnName = "Coupon" -> Text(<<67>> \o Digits(index))
               [] OTHER -> Undefined)
      [] OTHER ->
            (CASE columnName = "Billing Start Date" -> IsoDate
               [] columnName = "Billing End Date" -> HugeSerial
               [] columnName = "Status" -> Text(<<83>> \o Digits(index))
               [] columnName = "Discount" -> Num(0, <<>>)
               [] OTHER -> Undefined)

Sheet1Columns ==
    {"Stripe Customer Email", "Most Recent Create Date"}
        \cup {COLUMNS_TO_MAP[i] : i \in 1..Len(COLUMNS_TO_MAP)}

Sheet1Value(style, index, email, createDate, columnName) ==
    CASE columnName = "Stripe Customer Email" -> email
      [] columnName = "Most Recent Create Date" -> createDate
      [] OTHER -> ColumnValue(style, index, columnName)

Sheet1Row(style, index, email, createDate) ==
    [c \in {d \in Sheet1Columns : Sheet1Value(style, index, email, createDate, d) # Undefined}
        |-> Sheet1Value(style, index, email, createDate, c)]

Sheet2Row(email) == [c \in (IF email = Undefined THEN {} ELSE {"Email"}) |-> email]

EmailA == Text(<<97>>)                  \* "a"
EmailAUpper == Text(<<65, 32>>)         \* "A "
EmailASpaced == Text(<<32, 65>>)        \* " A"
EmailB == Text(<<98>>)                  \* "b"
EmailC == Text(<<99>>)                  \* "c"

CreateDates == {Undefined, NotADate, IsoDate, Num(45000, <<>>), Num(45001, <<>>), HugeSerial}

\* The email of sheet-1 row number index: one group, or a group and a
\* single row.
EmailOfRow(groups, index) ==
    IF groups = 2 /\ index = 1 THEN EmailB
    ELSE IF index % 2 = 1 THEN EmailA ELSE EmailAUpper

SelectInputs ==
    UNION {[kind : {"select"}, groups : {1, 2}, dates : [1..n -> CreateDates]] : n \in 0..MaxSheet1}

Sheet2Emails == {EmailA, EmailASpaced, EmailC, Undefined, Num(5, <<>>), Empty}

MatchInputs == [kind : {"match"}, style : 0..2, emails : SeqsUpTo(Sheet2Emails, MaxSheet2)]

MapInputs == SelectInputs \cup MatchInputs

\* The sheet 1 of a match input: two rows of one email and a row whose
\* email is not a string.
MatchSheet1(style) ==
    SubSeq(<<Sheet1Row(style, 1, EmailA, Num(45001, <<>>)),
             Sheet1Row((style + 1) % 3, 2, EmailAUpper, Num(45000, <<>>)),
             Sheet1Row(style, 3, Num(5, <<>>), Num(45002, <<>>))>>, 1, Min(3, MaxSheet1))

Sheet1Of(d) ==
    IF d.kind = "select"
    THEN [i \in 1..Len(d.dates) |-> Sheet1Row(i % 3, i, EmailOfRow(d.groups, i), d.dates[i])]
    ELSE MatchSheet1(d.style)

Sheet2Of(d) ==
    IF d.kind = "select" THEN <<Sheet2Row(EmailASpaced), Sheet2Row(EmailC)>>
    ELSE [i \in 1..Len(d.emails) |-> Sheet2Row(d.emails[i])]

InitMap ==
    /\ pc = "start"
    /\ verification = None /\ exitCode = None
    /\ args = None /\ returned = None
    /\ input \in MapInputs
    /\ sheet1 = Sheet1Of(input)
    /\ sheet2 = Sheet2Of(input)
    /\ sheet1Data = None /\ matchedData = None
    /\ buffer = <<>> /\ zipData = None /\ extracted = None
    /\ book = None /\ rows = None

ProcessSheet1 ==
    /\ pc = "start"
    /\ sheet1Data' \in processSheet1(sheet1)
    /\ pc' = "selected"
    /\ UNCHANGED <<runVars, input, sheet1, sheet2, matchedData, zipVars, sheetVars, callVars>>

MatchAndMapFields ==
    /\ pc = "selected"
    /\ matchedData' = matchAndMapFields(sheet1Data, sheet2)
    /\ pc' = "mapped"
    /\ UNCHANGED <<runVars, input, sheet1, sheet2, sheet1Data, zipVars, sheetVars, callVars>>

NextMap == ProcessSheet1 \/ MatchAndMapFields

SpecMap == InitMap /\ [][NextMap]_vars

(***************************************************************************)
(* Claims about the mapper.                                                *)
(***************************************************************************)
Selected == pc \in {"selected", "mapped"}
Mapped == pc = "mapped"

StripeEmail(row) == Get(row, "Stripe Customer Email")
CreateDate(row) == parseDate(Get(row, "Most Recent Create Date"))

\* The sheet-1 rows of the group of a normalized email.
GroupRows(normalizedEmail) ==
    {sheet1[i] : i \in {j \in 1..Len(sheet1) :
        /\ StripeEmail(sheet1[j]).k = "text" /\ StripeEmail(sheet1[j]).s # <<>>
        /\ Trim(toLowerCase(StripeEmail(sheet1[j]).s)) = normalizedEmail}}

NormalizedEmails ==
    {Trim(toLowerCase(StripeEmail(sheet1[i]).s)) :
        i \in {j \in 1..Len(sheet1) :
                  StripeEmail(sheet1[j]).k = "text" /\ StripeEmail(sheet1[j]).s # <<>>}}

\* The create date of the row denotes an instant.
Parseable(row) == CreateDate(row).k = "date"

\* C3: for every normalized Stripe Customer Email of sheet 1 whose group has
\* a row with a parseable Most Recent Create Date, the row selected by
\* processSheet1 (and by buildLatestRowMap, which selects in the same way)
\* has a parseable create date that is greater than or equal to the create
\* date of every other row of the group; so a row with a missing or
\* unparseable create date is selected only when the group has no parseable
\* one.
C3_LatestSelected ==
    Selected =>
        /\ DOMAIN sheet1Data = NormalizedEmails
        /\ \A email \in NormalizedEmails :
              /\ sheet1Data[email] \in GroupRows(email)
              /\ (\E row \in GroupRows(email) : Parseable(row)) =>
                    /\ Parseable(sheet1Data[email])
                    /\ \A row \in GroupRows(email) :
                          Parseable(row) =>
                              ~TimeLess(CreateDate(sheet1Data[email]), CreateDate(row))

\* The sheet-2 rows whose Email is a string that, lower-cased and trimmed,
\* is the normalized email of a sheet-1 row.
MatchingRows ==
    {i \in 1..Len(sheet2) :
        /\ Get(sheet2[i], "Email").k = "text" /\ Get(sheet2[i], "Email").s # <<>>
        /\ Trim(toLowerCase(Get(sheet2[i], "Email").s)) \in NormalizedEmails}

\* The n-th smallest member of a set of numbers.
NthOf(S, n) == CHOOSE i \in S : Cardinality({k \in S : k < i}) = n - 1

\* A mapped column is taken from the selected row: copied, empty when the
\* row has no such cell, and in the two date columns written as
\* MM/DD/YYYY HH:MM:SS when the value denotes a date.
TakenFrom(columnName, sheet1Row, written) ==
    LET value == Get(sheet1Row, columnName)
    IN  IF value = Undefined THEN written = Empty
        ELSE IF columnName \in {"Billing Start Date", "Billing End Date"}
                /\ Truthy(value) /\ parseDate(value).k # "null"
        THEN written = Text(formatLocal(parseDate(value)))
        ELSE written = value

\* C4: matchAndMapFields produces exactly one output row for each sheet-2 row
\* whose Email is a string that, lower-cased and trimmed, equals the
\* normalized email of some sheet-1 row, in sheet-2 order, with the sheet-2
\* Email unchanged and the six mapped columns taken from the selected
\* sheet-1 row; every other sheet-2 row produces no output row and is counted
\* as unmatched, as listUnmatchedEmails lists it, and matched + unmatched is
\* the number of sheet-2 rows.
C4_OneRowPerMatch ==
    Mapped =>
        /\ Len(matchedData.rows) = Cardinality(MatchingRows)
        /\ \A n \in 1..Len(matchedData.rows) :
              LET email == Get(sheet2[NthOf(MatchingRows, n)], "Email")
                  written == matchedData.rows[n]
              IN  /\ DOMAIN written = {"Email"} \cup {COLUMNS_TO_MAP[i] : i \in 1..Len(COLUMNS_TO_MAP)}
                  /\ written["Email"] = email
                  /\ \A i \in 1..Len(COLUMNS_TO_MAP) :
                        TakenFrom(COLUMNS_TO_MAP[i],
                                  sheet1Data[Trim(toLowerCase(email.s))],
                                  written[COLUMNS_TO_MAP[i]])
        /\ matchedData.stats.matched = Len(matchedData.rows)
        /\ matchedData.stats.unmatched = Cardinality(unmatchedEmails(sheet1, sheet2))
        /\ matchedData.stats.matched + matchedData.stats.unmatched = Len(sheet2)

\* A sheet-2 row whose Email needs normalizing is matched and written with a
\* formatted date, and another sheet-2 row is unmatched.
C4_Witness ==
    /\ Mapped
    /\ matchedData.stats.unmatched >= 1
    /\ \E n \in 1..Len(matchedData.rows) :
          /\ matchedData.rows[n]["Email"] = EmailASpaced
          /\ matchedData.rows[n]["Billing Start Date"] \notin
                {Get(row, "Billing Start Date") : row \in GroupRows(<<97>>)} \cup {Empty}

(***************************************************************************)
(* excelSerialDateToJSDate as a state machine: it is called on a number    *)
(* (a serial around 2023-01-01, at the ends of the accepted years, at the  *)
(* end of the range of Date, zero, negative), on a text or on another      *)
(* value.                                                                  *)
(***************************************************************************)
SerialOf(year, month, day) == DaysFromCivil(year, month, day) + excelEpochOffsetDays

Serials ==
    {-1, 0, 1, SerialOf(1899, 12, 31), SerialOf(1900, 1, 1), SerialOf(2100, 12, 31),
     SerialOf(2101, 1, 1), MaxDateDays + excelEpochOffsetDays,
     MaxDateDays + excelEpochOffsetDays + 1, HugeSerial.n}
        \cup {SerialOf(2023, 1, 1) + i - MaxSerialSpan : i \in 0..(2 * MaxSerialSpan)}

DateArgs ==
    {Num(n, <<>>) : n \in Serials}
        \cup {Num(n, <<53>>) : n \in Serials \ {-1}}
        \cup {Text(Digits(n)) : n \in Serials \ {-1}}
        \cup {Text(<<45, 53>>), IsoDate, NotADate, Empty, Bool(TRUE), Bool(FALSE), Undefined}

InitDate ==
    /\ pc = "start"
    /\ verification = None /\ exitCode = None
    /\ input \in DateArgs
    /\ args = input
    /\ returned = None
    /\ buffer = <<>> /\ zipData = None /\ extracted = None
    /\ book = None /\ rows = None
    /\ sheet1 = None /\ sheet2 = None /\ sheet1Data = None /\ matchedData = None

ExcelSerialDateToJSDate ==
    /\ pc = "start"
    /\ returned' = excelSerialDateToJSDate(args)
    /\ pc' = "returned"
    /\ UNCHANGED <<runVars, input, args, buffer, zipData, extracted, sheetVars, mapVars>>

NextDate == ExcelSerialDateToJSDate

SpecDate == InitDate /\ [][NextDate]_vars

(***************************************************************************)
(* Claims about excelSerialDateToJSDate, checked under SpecDate.           *)
(***************************************************************************)
\* The value is a number greater than zero.
PositiveNumber(v) == v.k = "num" /\ (v.n > 0 \/ (v.n = 0 /\ v.frac # <<>>))

\* What calendar-string parsing gives for a text: a date or nothing.
CalendarString(v) ==
    IF v.k = "text" /\ ParseDateText(v.s).k = "date" THEN ParseDateText(v.s) ELSE Null

\* C21: for a positive numeric serial n that is accepted as a date,
\* excelSerialDateToJSDate returns the instant (n - 25569) days after
\* 1970-01-01T00:00:00Z, so 44927 gives the calendar date 2023-01-01; for a
\* number n <= 0 the result is absent, and for a text that reads as a number
\* n <= 0 it is what calendar-string parsing of the text gives.
C21_EpochRule ==
    Returned =>
        /\ (PositiveNumber(args) /\ returned.k = "date") =>
              /\ returned.days = args.n - 25569
              /\ returned.frac = args.frac
        /\ args = Num(44927, <<>>) =>
              /\ returned.k = "date"
              /\ CivilFromDays(returned.days) = [year |-> 2023, month |-> 1, day |-> 1]
        /\ (args.k = "num" /\ ~PositiveNumber(args)) => returned = Null
        /\ (args.k = "text" /\ ~Number(args.s).nan /\ Number(args.s).n <= 0
            /\ Number(args.s).frac = <<>>) => returned = CalendarString(args)

\* The serial 44927 was decoded.
C21_Witness ==
    /\ Returned /\ args = Num(44927, <<>>)
    /\ returned = DateAt(DaysFromCivil(2023, 1, 1), <<>>)

\* The value takes the numeric path: it reads as a number greater than zero.
NumericPath(v) ==
    /\ ~NumberOf(v).nan
    /\ NumberOf(v).n > 0 \/ (NumberOf(v).n = 0 /\ NumberOf(v).frac # <<>>)

\* C22: every date excelSerialDateToJSDate returns from the numeric path has
\* a calendar year within 1900..2100; a serial whose instant lies outside
\* these years, or is no valid instant, is rejected: the result is absent
\* unless the value was a text that parses as a calendar string.
C22_YearRange ==
    (Returned /\ NumericPath(args)) =>
        \/ /\ returned.k = "date"
           /\ CivilFromDays(returned.days).year >= 1900
           /\ CivilFromDays(returned.days).year <= 2100
        \/ /\ returned = CalendarString(args)
           /\ \/ NumberOf(args).n - 25569 > MaxDateDays
              \/ CivilFromDays(NumberOf(args).n - 25569).year < 1900
              \/ CivilFromDays(NumberOf(args).n - 25569).year > 2100

(***************************************************************************)
(* Rendering in a time zone (Intl.DateTimeFormat, en-US, hour12: false).   *)
(* The candidate zones follow the United States rule in force since 2007:  *)
(* daylight time from the second Sunday of March, 2:00 local standard      *)
(* time, to the first Sunday of November, 2:00 local daylight time. With   *)
(* hour12: false the hour of local midnight is rendered as 24.             *)
(***************************************************************************)
candidates ==
    <<"America/Chicago", "America/New_York", "America/Denver", "America/Los_Angeles", "UTC">>

\* Hours east of UTC in standard time.
StandardOffset(timeZone) ==
    CASE timeZone = "America/Chicago" -> -6
      [] timeZone = "America/New_York" -> -5
      [] timeZone = "America/Denver" -> -7
      [] timeZone = "America/Los_Angeles" -> -8
      [] OTHER -> 0

\* Day of the week of a day number, 0 for Sunday; 1970-01-01 was a Thursday.
Weekday(days) == (days + 4) % 7

\* The n-th Sunday of a month, as a day number.
NthSunday(year, month, n) ==
    LET first == DaysFromCivil(year, month, 1)
    IN  first + ((7 - Weekday(first)) % 7) + 7 * (n - 1)

\* Daylight time is in force in the zone at the instant (days, seconds).
DaylightTime(timeZone, days, seconds) ==
    LET year == CivilFromDays(days).year
        std == StandardOffset(timeZone)
        startDay == NthSunday(year, 3, 2)
        startSeconds == (2 - std) * 3600
        endDay == NthSunday(year, 11, 1)
        endSeconds == (2 - (std + 1)) * 3600
    IN  /\ timeZone # "UTC"
        /\ days > startDay \/ (days = startDay /\ seconds >= startSeconds)
        /\ days < endDay \/ (days = endDay /\ seconds < endSeconds)

\* Hours east of UTC of the zone at the instant (days, seconds).
zoneOffset(timeZone, days, seconds) ==
    StandardOffset(timeZone) + (IF DaylightTime(timeZone, days, seconds) THEN 1 ELSE 0)

\* The parts of the rendering: month/day/year hour:minute:second, the hour
\* of midnight as 24.
renderParts(civil, hour, localSeconds) ==
    Pad2(civil.month) \o <<47>> \o Pad2(civil.day) \o <<47>> \o Digits(civil.year)
    \o <<32>> \o Pad2(IF hour = 0 THEN 24 ELSE hour) \o <<58>>
    \o Pad2((localSeconds \div 60) % 60) \o <<58>> \o Pad2(localSeconds % 60)

\* The rendering of the local day number and the seconds into that day.
renderLocal(localDays, localSeconds) ==
    renderParts(CivilFromDays(localDays), localSeconds \div 3600, localSeconds)

\* The rendering of an instant shifted by the offset of the zone, in
\* seconds from the start of the UTC day.
renderShifted(days, shifted) ==
    renderLocal(days + (IF shifted < 0 THEN -1 ELSE 0),
                IF shifted < 0 THEN shifted + 86400 ELSE shifted)

renderAt(days, seconds, timeZone) ==
    renderShifted(days, seconds + 3600 * zoneOffset(timeZone, days, seconds))

\* formatDateInTimezone (part_000:285-299) of a valid Date.
formatDateInTimezone(date, timeZone) == renderAt(date.days, SecondsOfDay(date.frac), timeZone)

\* What a call that throws a RangeError yields in place of a value.
RangeErrorThrown == [k |-> "RangeError", s |-> <<>>, n |-> 0, frac |-> <<>>, b |-> FALSE]

\* The timeZone argument when none is passed.
NoTimeZone == "undefined"

\* formatDate (part_000:301-322); with a time zone the formatter throws a
\* RangeError for an Invalid Date, without one the local getters are used.
formatParsed(value, parsed, timeZone) ==
    IF ~Truthy(value) THEN Empty
    ELSE IF parsed.k = "null" THEN value
    ELSE IF timeZone = NoTimeZone THEN Text(formatLocal(parsed))
    ELSE IF parsed.k = "invalid" THEN RangeErrorThrown
    ELSE Text(formatDateInTimezone(parsed, timeZone))

formatDateZoned(value, timeZone) == formatParsed(value, parseDate(value), timeZone)

(***************************************************************************)
(* detectTimezone (part_000:366-415).                                      *)
(***************************************************************************)
sampleLimit == 100

\* latestMap.get(email.toLowerCase().trim()) for the Email of an output
\* row, as a sequence of length 0 or 1.
sourceRowOf(latestMap, email) ==
    IF validEmail(email) THEN sheet1RowFor(latestMap, email) ELSE <<>>

\* Lines 377-385: the row is pushed as a sample.
isSample(sourceRow) ==
    sourceRow # <<>> /\ Get(sourceRow[1], "Billing Start Date").k = "num"

\* The output rows that would be pushed as samples.
sampleRows(latestMap, outputRows) ==
    {i \in 1..Len(outputRows) : isSample(sourceRowOf(latestMap, Get(outputRows[i], "Email")))}

\* Line 386: the loop stops once the limit is reached.
firstSamples(pushed) == {i \in pushed : Cardinality({j \in pushed : j < i}) < sampleLimit}

samplesOf(latestMap, outputRows) == firstSamples(sampleRows(latestMap, outputRows))

\* The source value of a column for an output row that is a sample.
sourceValue(latestMap, outputRow, column) ==
    Get(sheet1RowFor(latestMap, Get(outputRow, "Email"))[1], column)

\* Lines 396-403: the (sample, column) pairs whose source value is a number.
samplePairs(latestMap, outputRows, samples) ==
    {p \in samples \X {"Billing Start Date", "Billing End Date"} :
        sourceValue(latestMap, outputRows[p[1]], p[2]).k = "num"}

expectedOf(latestMap, outputRows, p, timeZone) ==
    formatDateZoned(sourceValue(latestMap, outputRows[p[1]], p[2]), timeZone)

\* Line 401: expected === actual, counted over the pairs.
matchesIn(latestMap, outputRows, pairs, timeZone) ==
    Cardinality({p \in pairs :
        expectedOf(latestMap, outputRows, p, timeZone) = Get(outputRows[p[1]], p[2])})

betterOrEqual(matches, bestMatches) == matches >= bestMatches

\* Line 408.
better(matches, bestMatches) == matches > bestMatches

\* Lines 406-411: the best zone after a candidate with its count.
bestAfter(best, timeZone, matches, total) ==
    IF total = 0 THEN best
    ELSE IF better(matches, best.bestMatches)
    THEN [bestTimeZone |-> timeZone, bestMatches |-> matches]
    ELSE best

\* Lines 394-412: the loop over the candidates from position index on.
RECURSIVE bestTimeZoneFrom(_, _, _, _, _)
bestTimeZoneFrom(latestMap, outputRows, pairs, index, best) ==
    IF index > Len(candidates) THEN best.bestTimeZone
    ELSE bestTimeZoneFrom(latestMap, outputRows, pairs, index + 1,
            bestAfter(best, candidates[index],
                      matchesIn(latestMap, outputRows, pairs, candidates[index]),
                      Cardinality(pairs)))

\* The formatter throws for a pair: the source value is an Invalid Date.
formatterThrows(latestMap, outputRows, pairs) ==
    \E p \in pairs : expectedOf(latestMap, outputRows, p, candidates[1]) = RangeErrorThrown

\* Lines 389-414 for the collected samples and their pairs.
detectFrom(latestMap, outputRows, collected, pairs) ==
    IF collected = 0
    THEN [status |-> "returned", timeZone |-> "null", samples |-> collected]
    ELSE IF formatterThrows(latestMap, outputRows, pairs)
    THEN [status |-> "RangeError", timeZone |-> "null", samples |-> collected]
    ELSE [status |-> "returned",
          timeZone |-> bestTimeZoneFrom(latestMap, outputRows, pairs, 1,
                          [bestTimeZone |-> "null", bestMatches |-> -1]),
          samples |-> collected]

detectWithSamples(latestMap, outputRows, samples) ==
    detectFrom(latestMap, outputRows, Cardinality(samples),
               samplePairs(latestMap, outputRows, samples))

\* detectTimezone with the map that buildLatestRowMap returned. The call
\* propagates the RangeError of the formatter.
detectTimezoneWith(latestMap, outputRows) ==
    detectWithSamples(latestMap, outputRows, samplesOf(latestMap, outputRows))

\* The outcomes of detectTimezone.
detectTimezone(sheet1Rows, outputRows) ==
    {detectTimezoneWith(latestMap, outputRows) : latestMap \in buildLatestRowMap(sheet1Rows)}

(***************************************************************************)
(* Source rows and output rows of detectTimezone. Each output row renders  *)
(* the dates of its source row in one zone, or holds other text.           *)
(***************************************************************************)
RenderZones == {candidates[i] : i \in 1..Len(candidates)} \cup {"none"}

StartKinds == {"noon", "midnight", "text", "huge", "startOnly", "zero"}

ZoneInputs ==
    [kind : {"zones"}, start : StartKinds, zones : SeqsUpTo(RenderZones, MaxSheet2)]
        \cup [kind : {"many"}, count : {sampleLimit - 1, sampleLimit, sampleLimit + 1},
              zone : RenderZones]

ZoneEmail(index) == Text(<<101>> \o Digits(index))          \* "e1", "e2", ...
ZoneEmailTyped(index) == Text(<<32, 69>> \o Digits(index))  \* " E1", " E2", ...

BillingStart(start, index) ==
    CASE start = "noon" -> Num(45000 + index, <<53>>)
      [] start = "midnight" -> Num(44927 + index, <<>>)
      [] start = "text" -> IsoDate
      [] start = "huge" -> HugeSerial
      [] start = "zero" -> Num(0, <<53>>)
      [] OTHER -> Num(45200 + index, <<55, 53>>)

BillingEnd(start, index) ==
    CASE start = "startOnly" -> IsoDate
      [] start = "zero" -> Num(0, <<>>)
      [] OTHER -> Num(45100 + index, <<50, 53>>)

ZoneSourceRow(start, index) ==
    [c \in {"Stripe Customer Email", "Most Recent Create Date", "Billing Start Date",
            "Billing End Date"} |->
        CASE c = "Stripe Customer Email" -> ZoneEmail(index)
          [] c = "Most Recent Create Date" -> Num(45000, <<>>)
          [] c = "Billing Start Date" -> BillingStart(start, index)
          [] OTHER -> BillingEnd(start, index)]

RenderedOr(formatted, timeZone) ==
    IF timeZone = "none" \/ formatted = RangeErrorThrown THEN NotADate ELSE formatted

Rendered(value, timeZone) == RenderedOr(formatDateZoned(value, timeZone), timeZone)

ZoneOutputRow(start, index, timeZone) ==
    [c \in {"Email", "Billing Start Date", "Billing End Date"} |->
        CASE c = "Email" -> (IF index % 2 = 1 THEN ZoneEmailTyped(index) ELSE ZoneEmail(index))
          [] OTHER -> Rendered(IF c = "Billing Start Date" THEN BillingStart(start, index)
                               ELSE BillingEnd(start, index), timeZone)]

ZoneSheet1(d) ==
    IF d.kind = "many" THEN <<ZoneSourceRow("noon", 1)>>
    ELSE [i \in 1..Len(d.zones) |-> ZoneSourceRow(d.start, i)]

\* The output rows: a row without a source row, then the rendered rows.
ZoneOutput(d) ==
    <<Sheet2Row(EmailC)>> \o
        [i \in 1..(IF d.kind = "many" THEN d.count ELSE Len(d.zones)) |->
            ZoneOutputRow(IF d.kind = "many" THEN "noon" ELSE d.start,
                          IF d.kind = "many" THEN 1 ELSE i,
                          IF d.kind = "many" THEN d.zone ELSE d.zones[i])]

InitZone ==
    /\ pc = "start"
    /\ verification = None /\ exitCode = None
    /\ input \in ZoneInputs
    /\ args = [sheet1Rows |-> ZoneSheet1(input), outputRows |-> ZoneOutput(input)]
    /\ returned = None
    /\ buffer = <<>> /\ zipData = None /\ extracted = None
    /\ book = None /\ rows = None
    /\ sheet1 = <<>> /\ sheet2 = <<>> /\ sheet1Data = None /\ matchedData = None

DetectTimezone ==
    /\ pc = "start"
    /\ returned' \in detectTimezone(args.sheet1Rows, args.outputRows)
    /\ pc' = "returned"
    /\ UNCHANGED <<runVars, input, args, zipVars, sheetVars, mapVars>>

NextZone == DetectTimezone

SpecZone == InitZone /\ [][NextZone]_vars

(***************************************************************************)
(* Claims about detectTimezone.                                            *)
(***************************************************************************)
\* The latest source row of each email of the call.
LatestOfCall == CHOOSE latestMap \in buildLatestRowMap(args.sheet1Rows) : TRUE

\* The exact matches of each candidate over the samples of the call.
exactMatches(latestMap, outputRows, pairs) ==
    [i \in 1..Len(candidates) |-> matchesIn(latestMap, outputRows, pairs, candidates[i])]

exactMatchesOf(latestMap, outputRows) ==
    exactMatches(latestMap, outputRows,
                 samplePairs(latestMap, outputRows, samplesOf(latestMap, outputRows)))

ExactMatches == exactMatchesOf(LatestOfCall, args.outputRows)

Position(timeZone) == CHOOSE i \in 1..Len(candidates) : candidates[i] = timeZone

ZoneReturned ==
    /\ Returned /\ returned.status = "returned"
    /\ returned.timeZone \in {candidates[i] : i \in 1..Len(candidates)}

\* The candidate at position chosen has the greatest count, is the first
\* with that count, and is the first candidate when only that one matches.
maximalFirstListed(counts, chosen) ==
    /\ \A i \in 1..Len(candidates) :
          /\ counts[i] <= counts[chosen]
          /\ counts[i] = counts[chosen] => chosen <= i
    /\ (counts[1] > 0 /\ \A i \in 2..Len(candidates) : counts[i] = 0) => chosen = 1

\* C23: the zone that detectTimezone returns has the greatest count of
\* exact matches among the candidates, and among the candidates with that
\* count it is the one listed first; so when the samples match under
\* America/Chicago only, it returns America/Chicago.
C23_MaximalFirstListed ==
    ZoneReturned => maximalFirstListed(ExactMatches, Position(returned.timeZone))

tiedWithLater(counts, chosen) ==
    /\ counts[chosen] > 0
    /\ \E i \in 1..Len(candidates) : i > chosen /\ counts[i] = counts[chosen]

\* Two candidates share the greatest count and the first listed is returned.
C23_Witness ==
    ZoneReturned /\ tiedWithLater(ExactMatches, Position(returned.timeZone))

\* The output rows of the call that pair with a latest source row whose
\* Billing Start Date is numeric.
DateBearing == sampleRows(LatestOfCall, args.outputRows)

\* C24: detectTimezone returns null when no output row pairs with a latest
\* source row whose Billing Start Date is numeric; it never collects more
\* than 100 samples; and whenever it collects a sample it returns one of
\* the candidate zones.
C24_SamplesDecide ==
    Returned =>
        /\ DateBearing = {} => (returned.status = "returned" /\ returned.timeZone = "null")
        /\ returned.samples <= 100
        /\ DateBearing # {} => ZoneReturned

(***************************************************************************)
(* Repeated decoding. readSheetRows is called up to MaxCalls times, each   *)
(* time on one of two archives with one of the sheet names. Here book is   *)
(* the pair of archives and rows is the sequence of the calls made, each   *)
(* with its result.                                                        *)
(***************************************************************************)
\* Mutant: the rows array outlives the call and keeps the rows of the call
\* before.
readSheetRowsAccumulating(earlier, parts, sheetName) ==
    LET fresh == readSheetRows(parts, sheetName)
    IN  IF earlier = <<>> THEN fresh
        ELSE [fresh EXCEPT !.rows = earlier[Len(earlier)].result.rows \o @]

\* A call made after earlier calls. Every table of readSheetRows (sheets,
\* rels, sharedStrings, rows, headers, the regular expressions with their
\* lastIndex) is created inside the call, so the result is that of the
\* arguments alone.
readSheetRowsAfter(earlier, parts, sheetName) == readSheetRows(parts, sheetName)

RereadInputs == TwoSheetInputs \cup BrokenBookInputs

\* The second archive: another file, with its own parts.
OtherBook ==
    PartsOf([kind |-> "swapped", hdr |-> [c \in 1..MaxCol |-> "named"], data |-> <<"odd">>])

InitReread ==
    /\ pc = "start"
    /\ verification = None /\ exitCode = None
    /\ args = None /\ returned = None
    /\ input \in RereadInputs
    /\ book = <<PartsOf(input), OtherBook>>
    /\ rows = <<>>
    /\ buffer = <<>> /\ zipData = None /\ extracted = None
    /\ sheet1 = None /\ sheet2 = None /\ sheet1Data = None /\ matchedData = None

ReadSheetRowsAgain ==
    /\ Len(rows) < MaxCalls
    /\ \E archive \in 1..2, sheetName \in SheetNames :
          rows' = Append(rows, [archive |-> archive, sheetName |-> sheetName,
                                result |-> readSheetRowsAfter(rows, book[archive], sheetName)])
    /\ pc' = "rowsRead"
    /\ UNCHANGED <<runVars, input, book, zipVars, mapVars, callVars>>

NextReread == ReadSheetRowsAgain

SpecReread == InitReread /\ [][NextReread]_vars

normalizeValue(value) ==
    CASE value.k = "undefined" -> <<>>
      [] value.k = "num" -> String(value)
      [] value.k = "text" ->
            (LET trimmed == Trim(value.s)
                 numeric == Number(trimmed)
             IN  IF trimmed = <<>> THEN <<>>
                 ELSE IF ~numeric.nan THEN String(Num(numeric.n, numeric.frac))
                 ELSE trimmed)
      [] value.k = "bool" -> String(value)

comparedColumns == <<"Email">> \o COLUMNS_TO_MAP

noRowCountIssue(expectedRows, outputRows) == <<>>

\* Lines 445-447.
rowCountIssue(expectedRows, outputRows) ==
    IF Len(expectedRows) # Len(outputRows)
    THEN <<[kind |-> "rowCount", row |-> 0, column |-> ""]>> ELSE <<>>

\* Lines 452-458: the mismatches of one row, from column number position on.
RECURSIVE columnIssues(_, _, _, _)
columnIssues(expectedRow, actualRow, index, position) ==
    IF position > Len(comparedColumns) THEN <<>>
    ELSE LET column == comparedColumns[position]
         IN  (IF normalizeValue(Get(expectedRow, column)) # normalizeValue(Get(actualRow, column))
              THEN <<[kind |-> "mismatch", row |-> index + 1, column |-> column]>>
              ELSE <<>>)
             \o columnIssues(expectedRow, actualRow, index, position + 1)

\* Lines 449-459: the expected rows from number index on; an expected row
\* without an output row at its index is skipped.
RECURSIVE rowIssuesFrom(_, _, _)
rowIssuesFrom(expectedRows, outputRows, index) ==
    IF index > Len(expectedRows) THEN <<>>
    ELSE (IF index > Len(outputRows) THEN <<>>
          ELSE columnIssues(expectedRows[index], outputRows[index], index, 1))
         \o rowIssuesFrom(expectedRows, outputRows, index + 1)

\* compareRows (part_000:443-464): the issues, in the order they are pushed.
compareRows(expectedRows, outputRows) ==
    rowCountIssue(expectedRows, outputRows) \o rowIssuesFrom(expectedRows, outputRows, 1)

\* Rows to compare: row number i holds one value, in a column that depends
\* on i.
CompareValues ==
    {Undefined, Empty, Text(<<32, 53, 32>>), Num(5, <<>>), Bool(TRUE),
     Text(<<116, 114, 117, 101>>)}

CompareColumn(index) == comparedColumns[((index * 2) % Len(comparedColumns)) + 1]

CompareRow(value, index) ==
    [c \in (IF value = Undefined THEN {} ELSE {CompareColumn(index)}) |-> value]

CompareRowsOf(values) == [i \in 1..Len(values) |-> CompareRow(values[i], i)]

CompareInputs ==
    [kind : {"compare"}, expected : SeqsUpTo(CompareValues, MaxCompare),
     actual : SeqsUpTo(CompareValues, MaxCompare)]

InitCompare ==
    /\ pc = "start"
    /\ verification = None /\ exitCode = None
    /\ input \in CompareInputs
    /\ args = [expectedRows |-> CompareRowsOf(input.expected),
               outputRows |-> CompareRowsOf(input.actual)]
    /\ returned = None
    /\ buffer = <<>> /\ zipData = None /\ extracted = None
    /\ book = None /\ rows = None
    /\ sheet1 = <<>> /\ sheet2 = <<>> /\ sheet1Data = None /\ matchedData = None

CompareRows ==
    /\ pc = "start"
    /\ returned' = compareRows(args.expectedRows, args.outputRows)
    /\ pc' = "returned"
    /\ UNCHANGED <<runVars, input, args, zipVars, sheetVars, mapVars>>

NextCompare == CompareRows

SpecCompare == InitCompare /\ [][NextCompare]_vars

\* Every compared column of every index normalizes to the same text on both
\* sides.
SameNormalized(expectedRows, actualRows) ==
    /\ Len(expectedRows) = Len(actualRows)
    /\ \A i \in 1..Len(expectedRows) : \A p \in 1..Len(comparedColumns) :
          normalizeValue(Get(expectedRows[i], comparedColumns[p]))
              = normalizeValue(Get(actualRows[i], comparedColumns[p]))

\* C27: compareRows returns no issue exactly when the expected and the
\* actual rows are equally many and, at every index, Email and the six
\* mapped columns normalize to the same text; with more or fewer actual
\* rows than expected rows the row-count issue is among the issues.
C27_NoIssueIff ==
    Returned =>
        /\ returned = <<>> <=> SameNormalized(args.expectedRows, args.outputRows)
        /\ Len(args.expectedRows) # Len(args.outputRows)
              => \E i \in 1..Len(returned) : returned[i].kind = "rowCount"

\* No issue for rows that differ as values and agree once normalized.
C27_Witness ==
    /\ Returned /\ returned = <<>>
    /\ args.expectedRows # <<>>
    /\ args.expectedRows # args.outputRows

(***************************************************************************)
(* The verifier's expected rows (part_000:417-441), and the mapper         *)
(* followed by the verifier.                                               *)
(***************************************************************************)
\* Lines 429-437: the expected value of a column.
expectedValue(columnName, value, timeZone) ==
    IF isDateColumn(columnName) THEN formatDateZoned(value, timeZone)
    ELSE IF value.k # "undefined" THEN value ELSE Empty

expectedRowOf(email, sourceRow, timeZone) ==
    [c \in {comparedColumns[p] : p \in 1..Len(comparedColumns)} |->
        IF c = "Email" THEN email ELSE expectedValue(c, Get(sourceRow, c), timeZone)]

RECURSIVE expectedFrom(_, _, _, _)
expectedFrom(latestMap, sheet2Rows, timeZone, index) ==
    IF index > Len(sheet2Rows) THEN <<>>
    ELSE LET email == Get(sheet2Rows[index], "Email")
             found == IF validEmail(email) THEN sheet1RowFor(latestMap, email) ELSE <<>>
         IN  (IF found = <<>> THEN <<>> ELSE <<expectedRowOf(email, found[1], timeZone)>>)
             \o expectedFrom(latestMap, sheet2Rows, timeZone, index + 1)

\* buildExpectedRows with the map that buildLatestRowMap returned.
buildExpectedRows(latestMap, sheet2Rows, timeZone) ==
    expectedFrom(latestMap, sheet2Rows, timeZone, 1)

\* The verifier builds its expected rows from the sheets the mapper read.
\* One engine sorts equal groups equally, so the verifier's latest-row map
\* is the mapper's.
BuildExpectedRows ==
    /\ pc = "mapped"
    /\ sheet1Data \in buildLatestRowMap(sheet1)
    /\ args' = [expectedRows |-> buildExpectedRows(sheet1Data, sheet2, NoTimeZone),
                outputRows |-> matchedData.rows]
    /\ pc' = "expected"
    /\ UNCHANGED <<runVars, input, returned, zipVars, sheetVars, mapVars>>

CompareWithOutput ==
    /\ pc = "expected"
    /\ returned' = compareRows(args.expectedRows, args.outputRows)
    /\ pc' = "returned"
    /\ UNCHANGED <<runVars, input, args, zipVars, sheetVars, mapVars>>

NextVerify == ProcessSheet1 \/ MatchAndMapFields \/ BuildExpectedRows \/ CompareWithOutput

SpecVerify == InitMap /\ [][NextVerify]_vars

\* C26: whatever the sheet-1 and sheet-2 rows, comparing the verifier's
\* expected rows (built without a time zone) with the rows the mapper
\* produced reports no issue.
C26_VerifierAccepts == Returned => returned = <<>>

(***************************************************************************)
(* verifyFieldMapping (part_000:651-723). Each step is one action; whether *)
(* a test finds issues, and whether a step that can throw does, is chosen  *)
(* by the step. A missing file makes its load throw.                       *)
(***************************************************************************)
\* Lines 657-671.
newVerification ==
    [status |-> "UNKNOWN", tests |-> <<>>,
     summary |-> [totalTests |-> 0, passedTests |-> 0, failedTests |-> 0],
     issues |-> <<>>]

\* The first statement of every test: verification.summary.totalTests++.
testStarted(v) == [v EXCEPT !.summary.totalTests = @ + 1]

\* The end of every test: the issues are copied, one of the two counters
\* is incremented and the test is pushed.
testRecorded(v, name, failed) ==
    [testStarted(v) EXCEPT
        !.tests = Append(@, [name |-> name, status |-> IF failed THEN "FAILED" ELSE "PASSED"]),
        !.issues = IF failed THEN Append(@, name) ELSE @,
        !.summary.passedTests = IF failed THEN @ ELSE @ + 1,
        !.summary.failedTests = IF failed THEN @ + 1 ELSE @]

generateFinalStatusPassed(v) == [v EXCEPT !.status = "PASSED"]

\* generateFinalStatus (part_000:1183-1189).
generateFinalStatus(v) ==
    [v EXCEPT !.status = IF v.summary.failedTests = 0 THEN "PASSED" ELSE "FAILED"]

ReportInputs == [kind : {"report"}, inputExists : BOOLEAN, outputExists : BOOLEAN]

InitReport ==
    /\ pc = "start"
    /\ input \in ReportInputs
    /\ verification = newVerification
    /\ exitCode = None
    /\ args = None /\ returned = None
    /\ buffer = <<>> /\ zipData = None /\ extracted = None
    /\ book = None /\ rows = None
    /\ sheet1 = <<>> /\ sheet2 = <<>> /\ sheet1Data = None /\ matchedData = None

reportFrame == <<input, buffer, zipData, extracted, sheetVars, mapVars, callVars>>

TestFileExistence ==
    /\ pc = "start"
    /\ verification' = testRecorded(verification, "File Existence",
                                    ~input.inputExists \/ ~input.outputExists)
    /\ pc' = "filesChecked"
    /\ UNCHANGED <<exitCode, reportFrame>>

\* xlsx.readFile throws for a missing file; a missing sheet throws too.
LoadInputData ==
    /\ pc = "filesChecked"
    /\ \E thrown \in BOOLEAN :
          /\ ~input.inputExists => thrown
          /\ pc' = IF thrown THEN "caught" ELSE "inputLoaded"
    /\ UNCHANGED <<verification, exitCode, reportFrame>>

LoadOutputData ==
    /\ pc = "inputLoaded"
    /\ \E thrown \in BOOLEAN :
          /\ ~input.outputExists => thrown
          /\ pc' = IF thrown THEN "caught" ELSE "outputLoaded"
    /\ UNCHANGED <<verification, exitCode, reportFrame>>

\* email.toLowerCase() throws for an Email that is truthy and not a string.
VerifyEmailMatching ==
    /\ pc = "outputLoaded"
    /\ \E outcome \in {"PASSED", "FAILED", "thrown"} :
          IF outcome = "thrown"
          THEN verification' = testStarted(verification) /\ pc' = "caught"
          ELSE /\ verification' = testRecorded(verification, "Email Matching",
                                               outcome = "FAILED")
               /\ pc' = "emailsVerified"
    /\ UNCHANGED <<exitCode, reportFrame>>

VerifyRowSelection ==
    /\ pc = "emailsVerified"
    /\ \E failed \in BOOLEAN :
          verification' = testRecorded(verification, "Row Selection (Latest Date)", failed)
    /\ pc' = "selectionVerified"
    /\ UNCHANGED <<exitCode, reportFrame>>

VerifyFieldAccuracy ==
    /\ pc = "selectionVerified"
    /\ \E failed \in BOOLEAN :
          verification' = testRecorded(verification, "Field Mapping Accuracy", failed)
    /\ pc' = "fieldsVerified"
    /\ UNCHANGED <<exitCode, reportFrame>>

VerifyDataCompleteness ==
    /\ pc = "fieldsVerified"
    /\ \E failed \in BOOLEAN :
          verification' = testRecorded(verification, "Data Completeness", failed)
    /\ pc' = "completenessVerified"
    /\ UNCHANGED <<exitCode, reportFrame>>

VerifyDateFormatting ==
    /\ pc = "completenessVerified"
    /\ \E failed \in BOOLEAN :
          verification' = testRecorded(verification, "Date Formatting", failed)
    /\ pc' = "datesVerified"
    /\ UNCHANGED <<exitCode, reportFrame>>

GenerateFinalStatus ==
    /\ pc = "datesVerified"
    /\ verification' = generateFinalStatus(verification)
    /\ pc' = "statusSet"
    /\ UNCHANGED <<exitCode, reportFrame>>

\* Lines 700-703: the results are displayed and the report is written;
\* writing the file can throw.
SaveVerificationReport ==
    /\ pc = "statusSet"
    /\ \E thrown \in BOOLEAN : pc' = IF thrown THEN "caught" ELSE "saved"
    /\ UNCHANGED <<verification, exitCode, reportFrame>>

\* Lines 706-710.
ExitWithStatus ==
    /\ pc = "saved"
    /\ exitCode' = IF verification.status = "PASSED" THEN 0 ELSE 1
    /\ pc' = "exited"
    /\ UNCHANGED <<verification, reportFrame>>

\* Lines 712-718; if writing the report throws again, the handler of line
\* 1257 exits with code 1 as well.
CatchError ==
    /\ pc = "caught"
    /\ verification' = [verification EXCEPT !.status = "FAILED",
                                            !.issues = Append(@, "Critical error")]
    /\ exitCode' = 1
    /\ pc' = "exited"
    /\ UNCHANGED reportFrame

NextReport ==
    \/ TestFileExistence \/ LoadInputData \/ LoadOutputData
    \/ VerifyEmailMatching \/ VerifyRowSelection \/ VerifyFieldAccuracy
    \/ VerifyDataCompleteness \/ VerifyDateFormatting
    \/ GenerateFinalStatus \/ SaveVerificationReport \/ ExitWithStatus \/ CatchError

SpecReport == InitReport /\ [][NextReport]_vars

\* A step of the run threw.
Excepted ==
    \/ pc = "caught"
    \/ \E i \in 1..Len(verification.issues) : verification.issues[i] = "Critical error"

Exited == pc = "exited"

SHEET1_NAME == "Export For Stripe Subs Field Up"
SHEET2_NAME == "Export For Contact Field Update"

\* The keys of the sheets Map in insertion order: a name set again keeps
\* its first position.
RECURSIVE keysInOrder(_, _)
keysInOrder(pairs, seen) ==
    IF pairs = <<>> THEN <<>>
    ELSE (IF pairs[1][1] \in seen THEN <<>> ELSE <<pairs[1][1]>>)
         \o keysInOrder(Tail(pairs), seen \cup {pairs[1][1]})

RECURSIVE Reversed(_)
Reversed(s) == IF s = <<>> THEN <<>> ELSE Append(Reversed(Tail(s)), Head(s))

listSheetNamesLastFirst(parts) ==
    IF parseWorkbook(parts).status # "ok"
    THEN [status |-> parseWorkbook(parts).status, names |-> <<>>]
    ELSE [status |-> "ok",
          names |-> Reversed(keysInOrder(extractPart(parts, "xl/workbook.xml").content, {}))]

\* listSheetNames (part_000:246-249); it throws what parseWorkbook throws.
listSheetNames(parts) ==
    IF parseWorkbook(parts).status # "ok"
    THEN [status |-> parseWorkbook(parts).status, names |-> <<>>]
    ELSE [status |-> "ok",
          names |-> keysInOrder(extractPart(parts, "xl/workbook.xml").content, {})]

\* The characters of the property names the verifier reads.
PropertyNames ==
    {"Email", "Stripe Customer Email", "Most Recent Create Date"}
        \cup {COLUMNS_TO_MAP[i] : i \in 1..Len(COLUMNS_TO_MAP)}

CharsOf(name) ==
    CASE name = "Email" ->
            <<69, 109, 97, 105, 108>>
      [] name = "Stripe Customer Email" ->
            <<83, 116, 114, 105, 112, 101, 32, 67, 117, 115, 116, 111, 109, 101, 114, 32, 69, 109, 97, 105, 108>>
      [] name = "Most Recent Create Date" ->
            <<77, 111, 115, 116, 32, 82, 101, 99, 101, 110, 116, 32, 67, 114, 101, 97, 116, 101, 32, 68, 97, 116, 101>>
      [] name = "Billing Start Date" ->
            <<66, 105, 108, 108, 105, 110, 103, 32, 83, 116, 97, 114, 116, 32, 68, 97, 116, 101>>
      [] name = "Billing End Date" ->
            <<66, 105, 108, 108, 105, 110, 103, 32, 69, 110, 100, 32, 68, 97, 116, 101>>
      [] name = "Status" ->
            <<83, 116, 97, 116, 117, 115>>
      [] name = "Products" ->
            <<80, 114, 111, 100, 117, 99, 116, 115>>
      [] name = "Discount" ->
            <<68, 105, 115, 99, 111, 117, 110, 116>>
      [] name = "Coupon" ->
            <<67, 111, 117, 112, 111, 110>>

\* A decoded row as the object whose properties the verifier reads by name.
asObject(rowData) ==
    [name \in {p \in PropertyNames : CharsOf(p) \in DOMAIN rowData} |-> rowData[CharsOf(name)]]

asObjects(decoded) == [i \in 1..Len(decoded) |-> asObject(decoded[i])]

(***************************************************************************)
(* The files of main. The input workbook has the two named sheets, or      *)
(* lacks one; the output workbook lists the expected sheet, other sheets,  *)
(* or none.                                                                *)
(***************************************************************************)
TextCell(c, chars) == Cell(ColumnLetters(c), "inlineStr", FALSE, <<>>, TRUE, chars)
NumberCell(c, chars) == Cell(ColumnLetters(c), "", TRUE, chars, FALSE, <<>>)

StartSerial == <<52, 53, 48, 48, 48, 46, 53>>            \* "45000.5"
HugeSerialText == <<50, 48, 48, 48, 48, 48, 48, 48, 48>>   \* "200000000"

MainSheet1(kind) ==
    <<<<TextCell(1, CharsOf("Stripe Customer Email")), TextCell(2, CharsOf("Billing Start Date")),
        TextCell(3, CharsOf("Status"))>>,
      <<TextCell(1, <<97>>),
        NumberCell(2, IF kind = "hugeDate" THEN HugeSerialText ELSE StartSerial),
        TextCell(3, <<83, 49>>)>>>>

MainSheet2 == <<<<TextCell(1, CharsOf("Email"))>>, <<TextCell(1, <<97>>)>>>>

InputKinds == {"ok", "hugeDate", "noSheet2", "noPart"}

InputParts(kind) ==
    LET parts ==
            [path \in {"xl/workbook.xml", "xl/_rels/workbook.xml.rels",
                       "xl/worksheets/sheet1.xml", "xl/worksheets/sheet2.xml"} |->
                CASE path = "xl/workbook.xml" ->
                        Part(<<<<SHEET1_NAME, "rId1">>>>
                             \o (IF kind = "noSheet2" THEN <<>> ELSE <<<<SHEET2_NAME, "rId2">>>>))
                  [] path = "xl/_rels/workbook.xml.rels" ->
                        Part(<<<<"rId1", "worksheets/sheet1.xml">>,
                               <<"rId2", "worksheets/sheet2.xml">>>>)
                  [] path = "xl/worksheets/sheet1.xml" -> Part(MainSheet1(kind))
                  [] path = "xl/worksheets/sheet2.xml" -> Part(MainSheet2)]
    IN  IF kind = "noPart" THEN Without(parts, "xl/worksheets/sheet1.xml") ELSE parts

\* The sheets the output workbook lists, in order, with their relationship
\* ids; rId9 has no relationship.
OutputKinds ==
    {"expected", "renamed", "twoOthers", "noSheets", "noWorkbook", "danglingFirst",
     "danglingExpected", "listedTwice"}

OutputSheets(kind) ==
    CASE kind = "expected" -> <<<<SHEET2_NAME, "rId1">>>>
      [] kind = "renamed" -> <<<<"Sheet1", "rId1">>>>
      [] kind = "twoOthers" -> <<<<"Sheet1", "rId1">>, <<"Sheet2", "rId2">>>>
      [] kind = "danglingFirst" -> <<<<"Sheet1", "rId9">>, <<"Sheet2", "rId1">>>>
      [] kind = "danglingExpected" -> <<<<SHEET2_NAME, "rId9">>, <<"Sheet1", "rId1">>>>
      [] kind = "listedTwice" -> <<<<"Sheet1", "rId2">>, <<"Sheet2", "rId2">>, <<"Sheet1", "rId1">>>>
      [] OTHER -> <<>>

OutputContents == {"right", "wrongStatus", "noRows"}
OutputZones == {"UTC", "America/Denver", "none"}

OutputSheet(content, timeZone) ==
    <<<<TextCell(1, CharsOf("Email")), TextCell(2, CharsOf("Billing Start Date")),
        TextCell(3, CharsOf("Status"))>>>>
    \o (IF content = "noRows" THEN <<>>
        ELSE <<<<TextCell(1, <<97>>),
                 TextCell(2, Rendered(Num(45000, <<53>>), timeZone).s),
                 TextCell(3, IF content = "right" THEN <<83, 49>> ELSE <<83, 50>>)>>>>)

OutputParts(kind, content, timeZone) ==
    LET parts ==
            [path \in {"xl/workbook.xml", "xl/_rels/workbook.xml.rels",
                       "xl/worksheets/sheet1.xml", "xl/worksheets/sheet2.xml"} |->
                CASE path = "xl/workbook.xml" -> Part(OutputSheets(kind))
                  [] path = "xl/_rels/workbook.xml.rels" ->
                        Part(<<<<"rId1", "worksheets/sheet1.xml">>,
                               <<"rId2", "worksheets/sheet2.xml">>>>)
                  [] path = "xl/worksheets/sheet1.xml" -> Part(OutputSheet(content, timeZone))
                  [] path = "xl/worksheets/sheet2.xml" -> Part(OutputSheet("noRows", timeZone))]
    IN  IF kind = "noWorkbook" THEN Without(parts, "xl/workbook.xml") ELSE parts

MainInputs ==
    [kind : {"main"}, inputExists : BOOLEAN, outputExists : BOOLEAN,
     inputArchive : {"ok", "InvalidZip"}, outputArchive : {"ok", "InvalidZip"},
     inputBook : InputKinds, outputBook : OutputKinds, content : OutputContents,
     zone : OutputZones]

InitMain ==
    /\ pc = "start"
    /\ input \in MainInputs
    /\ args = [step |-> "start"]
    /\ returned = None
    /\ exitCode = None /\ verification = None
    /\ buffer = <<>> /\ zipData = None /\ extracted = None
    /\ book = None /\ rows = None
    /\ sheet1 = <<>> /\ sheet2 = <<>> /\ sheet1Data = None /\ matchedData = None

mainFrame == <<input, buffer, zipData, extracted, sheet1Data, matchedData, verification>>

\* Lines 473-481.
CheckFiles ==
    /\ pc = "start"
    /\ IF input.inputExists /\ input.outputExists
       THEN pc' = "filesFound" /\ exitCode' = exitCode /\ args' = [step |-> "filesFound"]
       ELSE pc' = "exited" /\ exitCode' = 1 /\ args' = args
    /\ UNCHANGED <<mainFrame, book, rows, sheet1, sheet2, returned>>

\* Lines 483-484: an error thrown by readZipEntries is not caught, and the
\* process ends with the exit code 1 of an uncaught exception.
ReadArchives ==
    /\ pc = "filesFound"
    /\ IF input.inputArchive = "ok" /\ input.outputArchive = "ok"
       THEN /\ book' = <<InputParts(input.inputBook),
                         OutputParts(input.outputBook, input.content, input.zone)>>
            /\ pc' = "archivesRead" /\ exitCode' = exitCode
            /\ args' = [step |-> "archivesRead"]
       ELSE book' = book /\ pc' = "exited" /\ exitCode' = 1 /\ args' = args
    /\ UNCHANGED <<mainFrame, rows, sheet1, sheet2, returned>>

\* Lines 486-494, for the results of the two reads.
inputSheetsRead(first, second) == first.status = "ok" /\ second.status = "ok"

ReadInputSheetsWith(first, second) ==
    IF inputSheetsRead(first, second)
    THEN /\ sheet1' = asObjects(first.rows) /\ sheet2' = asObjects(second.rows)
         /\ pc' = "inputRead" /\ exitCode' = exitCode
         /\ args' = [step |-> "inputRead"]
    ELSE /\ sheet1' = sheet1 /\ sheet2' = sheet2
         /\ pc' = "exited" /\ exitCode' = 1 /\ args' = args

ReadInputSheets ==
    /\ pc = "archivesRead"
    /\ ReadInputSheetsWith(readSheetRows(book[1], SHEET1_NAME),
                            readSheetRows(book[1], SHEET2_NAME))
    /\ UNCHANGED <<mainFrame, book, rows, returned>>

\* Lines 496-509: the sheet that is read after the read of the expected
\* sheet gave expected, "" when none is.
outputSheetNameAfter(expected, sheetNames) ==
    IF expected.status = "ok" THEN SHEET2_NAME
    ELSE IF sheetNames.names = <<>> THEN ""
    ELSE sheetNames.names[1]

\* What main has of the output sheet: the rows of the expected sheet, or
\* after a failure those of the sheet read in the catch block; an error
\* thrown inside the catch block is not caught.
outputReadAfter(parts, expected, outputSheetName) ==
    [sheetName |-> outputSheetName,
     result |-> IF expected.status = "ok" \/ outputSheetName = "" THEN expected
                ELSE readSheetRows(parts, outputSheetName)]

outputRead(parts, expected) ==
    outputReadAfter(parts, expected, outputSheetNameAfter(expected, listSheetNames(parts)))

ReadOutputSheetWith(read) ==
    IF read.result.status = "ok"
    THEN rows' = read /\ pc' = "outputRead" /\ exitCode' = exitCode
         /\ args' = [step |-> "outputRead"]
    ELSE rows' = rows /\ pc' = "exited" /\ exitCode' = 1 /\ args' = args

ReadOutputSheet ==
    /\ pc = "inputRead"
    /\ ReadOutputSheetWith(outputRead(book[2], readSheetRows(book[2], SHEET2_NAME)))
    /\ UNCHANGED <<mainFrame, book, sheet1, sheet2, returned>>

\* Line 511: detectTimezone(...) || undefined.
timeZoneOf(detected) == IF detected.timeZone = "null" THEN NoTimeZone ELSE detected.timeZone

\* formatDate threw while the expected rows were built.
expectedThrown(expectedRows) ==
    \E i \in 1..Len(expectedRows) : \E c \in DOMAIN expectedRows[i] :
        expectedRows[i][c] = RangeErrorThrown

\* Lines 518-531, for the expected rows that were built.
comparedWith(timeZone, expectedRows, outputRows) ==
    IF expectedThrown(expectedRows) THEN [status |-> "RangeError", timeZone |-> timeZone, issues |-> <<>>]
    ELSE [status |-> "compared", timeZone |-> timeZone,
          issues |-> compareRows(expectedRows, outputRows)]

\* Lines 511-519, for the result of detectTimezone; its RangeError is not
\* caught.
comparedAfter(latestMap, sheet2Rows, outputRows, detected) ==
    IF detected.status = "RangeError"
    THEN [status |-> "RangeError", timeZone |-> "null", issues |-> <<>>]
    ELSE comparedWith(timeZoneOf(detected),
                      buildExpectedRows(latestMap, sheet2Rows, timeZoneOf(detected)),
                      outputRows)

compared(latestMap, sheet2Rows, outputRows) ==
    comparedAfter(latestMap, sheet2Rows, outputRows, detectTimezoneWith(latestMap, outputRows))

\* Lines 526-531.
ExitWith(outcome) ==
    IF outcome.status = "RangeError"
    THEN returned' = returned /\ exitCode' = 1 /\ args' = args
    ELSE /\ returned' = outcome
         /\ exitCode' = IF outcome.issues # <<>> THEN 1 ELSE 0
         /\ args' = [step |-> "compared"]

\* Lines 511-531: an error thrown by detectTimezone or by formatDate is
\* not caught.
CompareAndExit ==
    /\ pc = "outputRead"
    /\ \E latestMap \in buildLatestRowMap(sheet1) :
          ExitWith(compared(latestMap, sheet2, asObjects(rows.result.rows)))
    /\ pc' = "exited"
    /\ UNCHANGED <<mainFrame, book, rows, sheet1, sheet2>>

NextMain == CheckFiles \/ ReadArchives \/ ReadInputSheets \/ ReadOutputSheet \/ CompareAndExit

SpecMain == InitMain /\ [][NextMain]_vars

(***************************************************************************)
(* Claims about main.                                                      *)
(***************************************************************************)
\* The sheets the output workbook declares, in the order it declares them.
OutputDeclared ==
    IF "xl/workbook.xml" \in DOMAIN book[2] THEN book[2]["xl/workbook.xml"].content ELSE <<>>

\* Reading the expected sheet of the output archive failed.
ExpectedSheetFailed ==
    /\ args.step \in {"inputRead", "outputRead", "compared"}
    /\ readSheetRows(book[2], SHEET2_NAME).status # "ok"

\* main holds the rows of the sheet that the workbook declares first.
firstDeclaredRead(declared, read) ==
    /\ declared # <<>>
    /\ read.sheetName = declared[1][1]
    /\ read.result.status = "ok"

RecoveredRows == rows.result = readSheetRows(book[2], rows.sheetName)

InputSheetsRead ==
    inputSheetsRead(readSheetRows(book[1], SHEET1_NAME), readSheetRows(book[1], SHEET2_NAME))

\* C29: when reading the expected sheet of the output archive fails, main
\* goes on only with the rows of the first sheet the output workbook
\* lists, and exits with code 1 when the workbook lists none; main exits
\* with code 0 only when both files exist, the three sheets were read and
\* compareRows returned no issue, and every other exit has a code other
\* than 0.
C29_RecoveryAndExit ==
    /\ (ExpectedSheetFailed /\ args.step \in {"outputRead", "compared"}) =>
          (firstDeclaredRead(OutputDeclared, rows) /\ RecoveredRows)
    /\ (Exited /\ ExpectedSheetFailed /\ OutputDeclared = <<>>) => exitCode = 1
    /\ Exited =>
          /\ exitCode \in {0, 1}
          /\ exitCode = 0 <=>
                /\ input.inputExists /\ input.outputExists
                /\ args.step = "compared"
                /\ InputSheetsRead
                /\ rows.result.status = "ok"
                /\ returned.issues = <<>>

\* main recovered with the first of two listed sheets and exited with
\* code 0.
C29_Witness ==
    /\ Exited /\ exitCode = 0
    /\ ExpectedSheetFailed
    /\ Len(OutputDeclared) > 1
    /\ rows.sheetName = "Sheet1"

====
